---- MODULE Spec2Model ----
(***************************************************************************)
(* Model of the local-rag backend (apps/api): the chat history with its    *)
(* chat_version counter and the SSE stream handler (routers/chat.py,       *)
(* services/state.py), and the source / notebook lifecycle with the        *)
(* background indexing worker, the per-notebook SQLite store and the       *)
(* global registry (services/orchestrator.py, services/notebook_db,        *)
(* services/global_db.py).                                                 *)
(*                                                                         *)
(* Threads.  /chat/stream is an async generator on the event loop; the     *)
(* clear-history endpoint and every sources / notebooks endpoint is a      *)
(* plain `def` handler, which FastAPI runs on a thread pool; indexing runs *)
(* on its own threading.Thread.  No lock protects the in-memory            *)
(* dictionaries, so steps of different threads interleave between          *)
(* statements.                                                             *)
(***************************************************************************)
EXTENDS Integers, Sequences, FiniteSets, TLC

\* ---------------------------------------------------------------- bounds
MaxTokens == 1        \* tokens one stream emits at most
MaxVersion == 1       \* clear requests start only below this chat_version
MaxChunks == 1        \* chunks one parse produces at most
MaxRuns == 2          \* indexing runs / upsert_document calls started at most
MaxRequests == 4      \* source and notebook requests served at most
MaxCalls == 2         \* get_embeddings calls made on one client at most
MaxUploads == 4       \* upload requests received at most
MaxLines == 3         \* lines on one PDF page at most
MaxWords == 5         \* words in one text block at most
MaxHistory == 3       \* rag / model chat requests start only below this history length

\* ------------------------------------------------------------ identifiers
NotebookIds == {"n1", "n2"}
Streams == {"r1", "r2"}
Clearers == {"c1", "c2"}
\* The branches of chat_stream.stream: "fixed" stands for the two branches that
\* stream a fixed answer (agent, chat.py:151-166; rag without sources,
\* chat.py:174-192), "llm" for the upstream call (chat.py:195-239).
Modes == {"fixed", "llm"}
\* notebooks addressed by chat requests
ChatNotebooks == {"n1"}
\* uuid4() values in the order they are drawn (orchestrator.py:127, 206, 446)
NotebookIdSeq == <<"n1", "n2">>
SourceIdSeq == <<"s1", "s2">>
SourceIds == {"s1", "s2"}

\* -------------------------------------------------- dictionaries (dict)
\* A Python dict is a function whose DOMAIN is its key set.
Get(d, k, default) == IF k \in DOMAIN d THEN d[k] ELSE default
Put(d, k, v) == [x \in DOMAIN d \cup {k} |-> IF x = k THEN v ELSE d[x]]
Pop(d, k) == [x \in DOMAIN d \ {k} |-> d[x]]

VARIABLES
    messages,        \* InMemoryState.messages: notebook -> list of ChatMessage
    chat_versions,   \* InMemoryState.chat_versions: notebook -> int
    spc,             \* position of each /chat/stream generator
    snb,             \* its notebook_id
    smode,           \* its branch: agent, rag without sources, LLM call
    stream_version,  \* the snapshot taken at line 145
    frames,          \* SSE frames it has yielded so far
    stokens,         \* number of token frames yielded
    cpc,             \* position of each clear_messages call
    cnb,             \* its notebook_id
    cread,           \* the version it read at line 60 before storing +1
    persisted,       \* history: assistant messages stored by streams
    cleared,         \* history: streams whose notebook was cleared after their snapshot
    failedAt         \* history: number of frames sent when the LLM call failed (-1: no failure)

chatVars == <<messages, chat_versions, spc, snb, smode, stream_version, frames,
              stokens, cpc, cnb, cread, persisted, cleared, failedAt>>

VARIABLES
    db,              \* NOTEBOOKS_DB_DIR/<notebook>.db files: notebook -> committed tables
    runs,            \* number of indexing runs / upsert_document calls started so far
    txn,             \* the open write transaction of upsert_document and its position
    pending,         \* tables as the connection inside that transaction sees them
    seen             \* what each reading connection got from its last query

dbVars == <<db, runs, txn, pending, seen>>

VARIABLES
    notebooks,         \* InMemoryState.notebooks (its keys)
    sources,           \* InMemoryState.sources: source id -> Source
    detached,          \* Source objects popped from self.sources that a running worker still holds
    parsing_settings,  \* InMemoryState.parsing_settings: notebook -> auto_parse_on_upload
    g_notebooks,       \* GlobalStore table notebooks (ids)
    g_sources,         \* GlobalStore table sources: id -> row
    g_settings,        \* GlobalStore table parsing_settings: notebook -> auto_parse_on_upload
    docfiles,          \* document files on disk: source id -> DOCS_DIR/<notebook> or "ext"
    pjson,             \* CHUNKS_DIR/<notebook>/<source>.json: source id -> its content
    citations,         \* CITATIONS_DIR/<notebook>/*.json: {[notebook_id, source_id]}
    blocks,            \* index_service.INDEXED_BLOCKS: {[notebook_id, source_id]}
    workers,           \* the _index_source_sync threads: position and locals
    deleter,           \* the delete_notebook call in progress
    nb_used,           \* number of notebook uuids drawn
    src_used,          \* number of source uuids drawn
    lastparse,         \* history: source id -> total_chunks of its last successful parse
    reported,          \* history: the request that returned in the last step
    requests           \* number of client requests served so far

storeVars == <<notebooks, sources, detached, parsing_settings, g_notebooks, g_sources,
               g_settings, docfiles, pjson, citations, blocks, workers, deleter,
               nb_used, src_used, lastparse, reported, requests>>

VARIABLES
    ndb,             \* the NotebookStore tables a query reads: documents, tags, document_tags, chunks
    engine,          \* search_service._ENGINE: EmbeddingClient._available of the singleton
    call,            \* history: the chat request answered in the last step
    found,           \* history: what search() computed for it
    cited,           \* history: relevant_chunks, cited and placed in the prompt
    fused            \* history: one call of _rrf_merge and its result

searchVars == <<ndb, engine, call, found, cited, fused>>

VARIABLES
    ans,             \* one POST /chat or GET /chat/stream request in rag or model mode
    applied,         \* history: one call of a function with its arguments and its result
    emb,             \* the EmbeddingClient, the provider it talks to, and its last call
    upl              \* DOCS_DIR/<notebook>, the upload requests in progress, the Sources they added

unitVars == <<ans, applied, emb, upl>>

\* the chat variables, and the NotebookStore variables, that no source or
\* notebook operation touches
chatRest == <<spc, snb, smode, stream_version, frames, stokens, cpc, cnb, cread,
              persisted, cleared, failedAt>>
dbRest == <<txn, pending, seen>>

vars == <<chatVars, dbVars, storeVars, searchVars, unitVars>>

\* --------------------------------------------------- state.py operations
\* add_message (state.py:45-55): setdefault(notebook_id, []).append(message)
add_message(ms, n, role, by) ==
    Put(ms, n, Append(Get(ms, n, <<>>), [role |-> role, by |-> by]))

\* get_chat_version (state.py:63-64)
get_chat_version(cv, n) == Get(cv, n, 0)

\* streams of notebook n that hold a snapshot and have not closed yet
OpenStreams(n) ==
    {r \in Streams : snb[r] = n /\ spc[r] \in {"tokens", "citations", "check", "persist", "errdone"}}

InitChat ==
    /\ messages = [n \in {"n1"} |-> <<>>]
    /\ chat_versions = [n \in {"n1"} |-> 0]
    /\ spc = [r \in Streams |-> "idle"]
    /\ snb = [r \in Streams |-> "n1"]
    /\ smode = [r \in Streams |-> "fixed"]
    /\ stream_version = [r \in Streams |-> 0]
    /\ frames = [r \in Streams |-> <<>>]
    /\ stokens = [r \in Streams |-> 0]
    /\ cpc = [c \in Clearers |-> "idle"]
    /\ cnb = [c \in Clearers |-> "n1"]
    /\ cread = [c \in Clearers |-> 0]
    /\ persisted = {}
    /\ cleared = {}
    /\ failedAt = [r \in Streams |-> -1]

\* ------------------------------------------------ DELETE /messages
\* clear_messages, state.py:59: self.messages[notebook_id] = []
ClearEmpty(c, n) ==
    /\ cpc[c] = "idle"
    /\ get_chat_version(chat_versions, n) < MaxVersion
    /\ messages' = Put(messages, n, <<>>)
    /\ cnb' = [cnb EXCEPT ![c] = n]
    /\ cpc' = [cpc EXCEPT ![c] = "read"]
    /\ UNCHANGED <<chat_versions, spc, snb, smode, stream_version, frames, stokens,
                   cread, persisted, cleared, failedAt>>
    /\ UNCHANGED <<dbVars, storeVars, searchVars, unitVars>>

\* state.py:60, right-hand side: self.chat_versions.get(notebook_id, 0) + 1
ClearRead(c) ==
    /\ cpc[c] = "read"
    /\ cread' = [cread EXCEPT ![c] = get_chat_version(chat_versions, cnb[c])]
    /\ cpc' = [cpc EXCEPT ![c] = "write"]
    /\ UNCHANGED <<messages, chat_versions, spc, snb, smode, stream_version, frames,
                   stokens, cnb, persisted, cleared, failedAt>>
    /\ UNCHANGED <<dbVars, storeVars, searchVars, unitVars>>

\* state.py:60, the store into self.chat_versions[notebook_id]
ClearWrite(c) ==
    /\ cpc[c] = "write"
    /\ chat_versions' = Put(chat_versions, cnb[c], cread[c] + 1)
    /\ cpc' = [cpc EXCEPT ![c] = "idle"]
    /\ cleared' = cleared \cup OpenStreams(cnb[c])
    /\ UNCHANGED <<messages, spc, snb, smode, stream_version, frames, stokens,
                   cnb, cread, persisted, failedAt>>
    /\ UNCHANGED <<dbVars, storeVars, searchVars, unitVars>>

\* ------------------------------------------------ GET /chat/stream
\* chat.py:144: store.add_message(notebook_id, "user", message)
StreamOpen(r, n, m) ==
    /\ spc[r] = "idle"
    /\ messages' = add_message(messages, n, "user", r)
    /\ snb' = [snb EXCEPT ![r] = n]
    /\ smode' = [smode EXCEPT ![r] = m]
    /\ spc' = [spc EXCEPT ![r] = "snapshot"]
    /\ UNCHANGED <<chat_versions, stream_version, frames, stokens, cpc, cnb, cread,
                   persisted, cleared, failedAt>>
    /\ UNCHANGED <<dbVars, storeVars, searchVars, unitVars>>

\* chat.py:145: stream_version = store.get_chat_version(notebook_id)
StreamSnapshot(r) ==
    /\ spc[r] = "snapshot"
    /\ stream_version' = [stream_version EXCEPT ![r] = get_chat_version(chat_versions, snb[r])]
    /\ spc' = [spc EXCEPT ![r] = "tokens"]
    /\ UNCHANGED <<messages, chat_versions, snb, smode, frames, stokens, cpc, cnb,
                   cread, persisted, cleared, failedAt>>
    /\ UNCHANGED <<dbVars, storeVars, searchVars, unitVars>>

\* chat.py:154-159, 176-181, 200-212: yield to_sse("token", ...)
StreamToken(r) ==
    /\ spc[r] = "tokens"
    /\ stokens[r] < MaxTokens
    /\ frames' = [frames EXCEPT ![r] = Append(@, "token")]
    /\ stokens' = [stokens EXCEPT ![r] = @ + 1]
    /\ UNCHANGED <<messages, chat_versions, spc, snb, smode, stream_version, cpc, cnb,
                   cread, persisted, cleared, failedAt>>
    /\ UNCHANGED <<dbVars, storeVars, searchVars, unitVars>>

\* chat.py:160, 182, 222: yield to_sse("citations", ...) once the answer is
\* complete; the fixed answers of chat.py:154 and 176 have at least one word.
StreamCitations(r) ==
    /\ spc[r] = "tokens"
    /\ smode[r] = "fixed" => stokens[r] >= 1
    /\ frames' = [frames EXCEPT ![r] = Append(@, "citations")]
    /\ spc' = [spc EXCEPT ![r] = "check"]
    /\ UNCHANGED <<messages, chat_versions, snb, smode, stream_version, stokens, cpc,
                   cnb, cread, persisted, cleared, failedAt>>
    /\ UNCHANGED <<dbVars, storeVars, searchVars, unitVars>>

\* chat.py:213-218: stream_model_answer raised RuntimeError (model_chat.py:322-330
\* turns every httpx.HTTPError into it); yield to_sse("error", ...)
StreamLLMError(r) ==
    /\ spc[r] = "tokens"
    /\ smode[r] = "llm"
    /\ failedAt' = [failedAt EXCEPT ![r] = Len(frames[r])]
    /\ frames' = [frames EXCEPT ![r] = Append(@, "error")]
    /\ spc' = [spc EXCEPT ![r] = "errdone"]
    /\ UNCHANGED <<messages, chat_versions, snb, smode, stream_version, stokens, cpc,
                   cnb, cread, persisted, cleared>>
    /\ UNCHANGED <<dbVars, storeVars, searchVars, unitVars>>

\* Mutant of StreamErrDone: the error handler stores the partial answer and
\* closes the stream with its message id.
StreamErrDone_persisting(r) ==
    /\ spc[r] = "errdone"
    /\ messages' = add_message(messages, snb[r], "assistant", r)
    /\ frames' = [frames EXCEPT ![r] = Append(@, "done_id")]
    /\ spc' = [spc EXCEPT ![r] = "closed"]
    /\ UNCHANGED <<chat_versions, snb, smode, stream_version, stokens, cpc,
                   cnb, cread, persisted, cleared, failedAt>>
    /\ UNCHANGED <<dbVars, storeVars, searchVars, unitVars>>

\* chat.py:219-220: yield to_sse("done", {"message_id": ""}); return
StreamErrDone(r) ==
    /\ spc[r] = "errdone"
    /\ frames' = [frames EXCEPT ![r] = Append(@, "done_empty")]
    /\ spc' = [spc EXCEPT ![r] = "closed"]
    /\ UNCHANGED <<messages, chat_versions, snb, smode, stream_version, stokens, cpc,
                   cnb, cread, persisted, cleared, failedAt>>
    /\ UNCHANGED <<dbVars, storeVars, searchVars, unitVars>>

\* chat.py:161-163, 183-185, 224-226: the version comparison; on a mismatch
\* the stream yields done with an empty message id and returns
version_moved(r) == get_chat_version(chat_versions, snb[r]) # stream_version[r]

StreamCheck(r) ==
    /\ spc[r] = "check"
    /\ IF version_moved(r)
         THEN /\ frames' = [frames EXCEPT ![r] = Append(@, "done_empty")]
              /\ spc' = [spc EXCEPT ![r] = "closed"]
         ELSE /\ frames' = frames
              /\ spc' = [spc EXCEPT ![r] = "persist"]
    /\ UNCHANGED <<messages, chat_versions, snb, smode, stream_version, stokens, cpc,
                   cnb, cread, persisted, cleared, failedAt>>
    /\ UNCHANGED <<dbVars, storeVars, searchVars, unitVars>>

\* chat.py:164-165, 186-191, 228-239: store.add_message(notebook_id,
\* "assistant", ...) and yield to_sse("done", {"message_id": assistant.id})
StreamPersist(r) ==
    /\ spc[r] = "persist"
    /\ messages' = add_message(messages, snb[r], "assistant", r)
    /\ persisted' = persisted \cup
          {[by |-> r, snapshot |-> stream_version[r],
            at |-> get_chat_version(chat_versions, snb[r])]}
    /\ frames' = [frames EXCEPT ![r] = Append(@, "done_id")]
    /\ spc' = [spc EXCEPT ![r] = "closed"]
    /\ UNCHANGED <<chat_versions, snb, smode, stream_version, stokens, cpc, cnb,
                   cread, cleared, failedAt>>
    /\ UNCHANGED <<dbVars, storeVars, searchVars, unitVars>>

NextChat ==
    \/ \E c \in Clearers, n \in ChatNotebooks : ClearEmpty(c, n)
    \/ \E c \in Clearers : ClearRead(c)
    \/ \E c \in Clearers : ClearWrite(c)
    \/ \E r \in Streams, n \in ChatNotebooks, m \in Modes : StreamOpen(r, n, m)
    \/ \E r \in Streams : StreamSnapshot(r)
    \/ \E r \in Streams : StreamToken(r)
    \/ \E r \in Streams : StreamCitations(r)
    \/ \E r \in Streams : StreamLLMError(r)
    \/ \E r \in Streams : StreamErrDone(r)
    \/ \E r \in Streams : StreamCheck(r)
    \/ \E r \in Streams : StreamPersist(r)

\* ======================================================================
\* Claims about the chat history (checked under SpecChat)
\* ======================================================================
LastFrame(r) == frames[r][Len(frames[r])]
StoredAnswerOf(r) ==
    \E n \in DOMAIN messages : \E i \in 1..Len(messages[n]) :
        messages[n][i] = [role |-> "assistant", by |-> r]

\* C1: an assistant message is appended for a stream only while
\* chat_version of its notebook still equals the stream's snapshot; a stream
\* whose notebook was cleared after the snapshot appends nothing and closes
\* with done carrying an empty message_id.
C1_PersistOnlyAtSnapshotVersion ==
    /\ \A p \in persisted : p.at = p.snapshot
    /\ \A r \in Streams :
          (spc[r] = "closed" /\ r \in cleared) =>
              /\ LastFrame(r) = "done_empty"
              /\ ~\E p \in persisted : p.by = r

\* C2: every clear raises chat_version by exactly one, chat_version never
\* decreases while the notebook has an entry, and no stream appends its
\* answer while a clear has emptied the history but not yet published the
\* new version.
C2_VersionPublishedBeforeClearedHistory ==
    [][ /\ \A n \in DOMAIN chat_versions :
              n \in DOMAIN chat_versions' => chat_versions'[n] >= chat_versions[n]
        /\ \A c \in Clearers :
              (cpc[c] = "write" /\ cpc'[c] = "idle") =>
                  chat_versions'[cnb[c]] = get_chat_version(chat_versions, cnb[c]) + 1
        /\ \A r \in Streams :
              (spc[r] = "persist" /\ spc'[r] = "closed") =>
                  ~\E c \in Clearers : cpc[c] \in {"read", "write"} /\ cnb[c] = snb[r]
      ]_vars

\* C3: once the upstream LLM call of a stream has failed, the frames that
\* follow are exactly error then done with an empty message_id, and the
\* stream stores no assistant message.
C3_LLMErrorEndsWithErrorDone ==
    \A r \in Streams :
        failedAt[r] >= 0 =>
            /\ LET rest == SubSeq(frames[r], failedAt[r] + 1, Len(frames[r]))
               IN  IF spc[r] = "closed"
                     THEN rest = <<"error", "done_empty">>
                     ELSE rest = <<"error">>
            /\ ~StoredAnswerOf(r)
            /\ ~\E p \in persisted : p.by = r

\* C3 witness: one stream failed before its first token, another after a
\* token had been sent, and both have closed.
C3_Witness ==
    \E r, q \in Streams :
        /\ spc[r] = "closed" /\ failedAt[r] = 0
        /\ spc[q] = "closed" /\ failedAt[q] >= 1

\* ======================================================================
\* NotebookStore: the per-notebook SQLite file (services/notebook_db)
\* ======================================================================
\* A row carries in `ver` the version it was written for: the number of the
\* run and the embedded_chunks that run was given (one flag per chunk: is its
\* vector non-zero); it stands for the text, metadata and vectors of that
\* parse.  A
\* chunks_fts entry is the set of index terms stored under a rowid for one
\* text; a chunk_embeddings row has no doc_id column, `doc_id` there records
\* for which document's chunk the vector was written.
Max(S) == CHOOSE x \in S : \A y \in S : y <= x

\* schema.py:28-111: the tables of a freshly created database file
migrate ==
    [documents |-> {}, chunks |-> {}, chunks_fts |-> {}, chunk_embeddings |-> {},
     document_tags |-> {}]

\* SELECT rowid FROM chunks WHERE doc_id=? (documents.py:66-67)
RowidsOf(img, d) == {c.rowid : c \in {x \in img.chunks : x.doc_id = d}}

\* documents.py:25-64: INSERT INTO documents ... ON CONFLICT(doc_id) DO UPDATE
UpsertDocumentRow(img, d, v) ==
    [img EXCEPT !.documents = {x \in @ : x.doc_id # d} \cup {[doc_id |-> d, ver |-> v]}]

\* documents.py:66: DELETE FROM chunk_embeddings WHERE chunk_rowid IN (...)
DeleteEmbeddings(img, d) ==
    [img EXCEPT !.chunk_embeddings = {e \in @ : e.chunk_rowid \notin RowidsOf(img, d)}]

\* documents.py:67: DELETE FROM chunks_fts WHERE rowid IN (...).  chunks_fts is
\* an external-content FTS5 table (schema.py:65-69): a delete removes the
\* terms of the text that the content row holds now.
DeleteFts(img, d) ==
    [img EXCEPT !.chunks_fts =
        {f \in @ : ~\E c \in img.chunks :
                       c.doc_id = d /\ c.rowid = f.rowid /\ f.doc_id = c.doc_id /\ f.ver = c.ver}]

\* documents.py:68: DELETE FROM chunks WHERE doc_id=?
DeleteChunks(img, d) == [img EXCEPT !.chunks = {c \in @ : c.doc_id # d}]

\* rowid SQLite gives the next row of chunks (no AUTOINCREMENT, schema.py:50-63)
NextRowid(img) == IF img.chunks = {} THEN 1 ELSE Max({c.rowid : c \in img.chunks}) + 1

\* documents.py:70-101, one iteration: INSERT INTO chunks, INSERT INTO
\* chunks_fts(rowid, ...), INSERT OR REPLACE INTO chunk_embeddings
InsertChunk(img, d, v, idx, nz) ==
    LET r == NextRowid(img)
    IN  [img EXCEPT
            !.chunks = @ \cup {[rowid |-> r, doc_id |-> d, chunk_index |-> idx, ver |-> v]},
            !.chunks_fts = @ \cup {[rowid |-> r, doc_id |-> d, ver |-> v]},
            !.chunk_embeddings = {e \in @ : e.chunk_rowid # r} \cup
                {[chunk_rowid |-> r, doc_id |-> d, ver |-> v, nonzero |-> nz]}]

\* documents.py:103, 133-138: _set_document_tags(conn, doc_id, tags or
\* metadata.tags); both are empty in the indexing path (orchestrator.py:270,
\* parse/models.py:89), so the old tags are deleted and none inserted
ClearDocumentTags(img, d) == [img EXCEPT !.document_tags = {t \in @ : t.doc_id # d}]

\* documents.py:70-101, the whole loop over embedded_chunks[from..]
RECURSIVE InsertChunks(_, _, _, _, _)
InsertChunks(img, d, v, vec, from) ==
    IF from > Len(vec) THEN img
    ELSE InsertChunks(InsertChunk(img, d, v, from - 1, vec[from]), d, v, vec, from + 1)

\* documents.py:15-104: all statements of upsert_document, committed together
\* (mv: version of `metadata`, cv: version of the parsed chunks)
upsert_document(img, d, mv, cv, vec) ==
    ClearDocumentTags(
        InsertChunks(
            DeleteChunks(DeleteFts(DeleteEmbeddings(UpsertDocumentRow(img, d, mv), d), d), d),
            d, cv, vec, 1),
        d)

\* DELETE FROM documents WHERE doc_id=? (orchestrator.py:334, 373) with
\* foreign_keys=ON (schema.py:19): chunks and document_tags cascade
\* (schema.py:52, 82); chunks_fts and chunk_embeddings have no foreign key
DeleteDocument(img, d) ==
    [img EXCEPT !.documents = {x \in @ : x.doc_id # d},
                !.chunks = {c \in @ : c.doc_id # d},
                !.document_tags = {t \in @ : t.doc_id # d}]

\* db.py:21-28: opening a NotebookDB creates the file and its tables if absent
db_for_notebook(files, n) == IF n \in DOMAIN files THEN files ELSE Put(files, n, migrate)

\* ------------------------------------------------ one write transaction
\* Python's sqlite3 opens a transaction at the first INSERT/UPDATE/DELETE of
\* upsert_document and keeps it until conn.commit() (documents.py:104).
\* SQLite admits one write transaction per file; the journal is WAL
\* (schema.py:17), so another connection reads the last committed tables.
DbNotebook == "n1"
Readers == {"q1"}
Version(run, vec) == [run |-> run, vec |-> vec]
NoTxn == [pc |-> "idle", doc_id |-> "none", ver |-> Version(0, <<>>), vec |-> <<>>, idx |-> 0]
VecsUpTo(k) == UNION {[1..n -> BOOLEAN] : n \in 0..k}

\* the rows a query for document d reaches: its document row, its chunks and,
\* joined on rowid, their FTS entries and embeddings (search.py)
View(img, d) ==
    [documents |-> {x \in img.documents : x.doc_id = d},
     chunks |-> {c \in img.chunks : c.doc_id = d},
     chunks_fts |-> {f \in img.chunks_fts : f.rowid \in RowidsOf(img, d)},
     chunk_embeddings |-> {e \in img.chunk_embeddings : e.chunk_rowid \in RowidsOf(img, d)},
     document_tags |-> {t \in img.document_tags : t.doc_id = d}]
NoView == [doc_id |-> "none", view |-> View(migrate, "none")]

InitDb ==
    /\ db = <<>>
    /\ runs = 0
    /\ txn = NoTxn
    /\ pending = migrate
    /\ seen = [q \in Readers |-> NoView]

\* orchestrator.py:266-267 and documents.py:25-64: db_for_notebook, then the
\* first statement of upsert_document opens the transaction
TxBegin(d, vec) ==
    /\ txn.pc = "idle"
    /\ runs < MaxRuns
    /\ runs' = runs + 1
    /\ db' = db_for_notebook(db, DbNotebook)
    /\ pending' = UpsertDocumentRow(db'[DbNotebook], d, Version(runs + 1, vec))
    /\ txn' = [pc |-> "del_emb", doc_id |-> d, ver |-> Version(runs + 1, vec), vec |-> vec, idx |-> 1]
    /\ UNCHANGED <<seen, chatVars, storeVars, searchVars, unitVars>>

\* documents.py:66
TxDeleteEmbeddings ==
    /\ txn.pc = "del_emb"
    /\ pending' = DeleteEmbeddings(pending, txn.doc_id)
    /\ txn' = [txn EXCEPT !.pc = "del_fts"]
    /\ UNCHANGED <<db, runs, seen, chatVars, storeVars, searchVars, unitVars>>

\* documents.py:67
TxDeleteFts ==
    /\ txn.pc = "del_fts"
    /\ pending' = DeleteFts(pending, txn.doc_id)
    /\ txn' = [txn EXCEPT !.pc = "del_chunks"]
    /\ UNCHANGED <<db, runs, seen, chatVars, storeVars, searchVars, unitVars>>

\* Mutant of TxDeleteChunks: the connection runs in autocommit mode, the
\* deletes reach the file before the new chunks are inserted.
TxDeleteChunks_autocommit ==
    /\ txn.pc = "del_chunks"
    /\ pending' = DeleteChunks(pending, txn.doc_id)
    /\ db' = Put(db, DbNotebook, pending')
    /\ txn' = [txn EXCEPT !.pc = "insert"]
    /\ UNCHANGED <<runs, seen, chatVars, storeVars, searchVars, unitVars>>

\* documents.py:68
TxDeleteChunks ==
    /\ txn.pc = "del_chunks"
    /\ pending' = DeleteChunks(pending, txn.doc_id)
    /\ txn' = [txn EXCEPT !.pc = "insert"]
    /\ UNCHANGED <<db, runs, seen, chatVars, storeVars, searchVars, unitVars>>

\* documents.py:70-101, one embedded chunk
TxInsertChunk ==
    /\ txn.pc = "insert"
    /\ txn.idx <= Len(txn.vec)
    /\ pending' = InsertChunk(pending, txn.doc_id, txn.ver, txn.idx - 1, txn.vec[txn.idx])
    /\ txn' = [txn EXCEPT !.idx = @ + 1]
    /\ UNCHANGED <<db, runs, seen, chatVars, storeVars, searchVars, unitVars>>

\* documents.py:103
TxSetTags ==
    /\ txn.pc = "insert"
    /\ txn.idx > Len(txn.vec)
    /\ pending' = ClearDocumentTags(pending, txn.doc_id)
    /\ txn' = [txn EXCEPT !.pc = "commit"]
    /\ UNCHANGED <<db, runs, seen, chatVars, storeVars, searchVars, unitVars>>

\* documents.py:104: conn.commit()
TxCommit ==
    /\ txn.pc = "commit"
    /\ db' = Put(db, DbNotebook, pending)
    /\ pending' = migrate
    /\ txn' = NoTxn
    /\ seen' = [q \in Readers |-> NoView]
    /\ UNCHANGED <<runs, chatVars, storeVars, searchVars, unitVars>>

\* the process dies inside upsert_document: the open transaction is rolled
\* back when the file is opened next, the connections are gone
CrashInTxn ==
    /\ txn.pc # "idle"
    /\ pending' = migrate
    /\ txn' = NoTxn
    /\ seen' = [q \in Readers |-> NoView]
    /\ UNCHANGED <<db, runs, chatVars, storeVars, searchVars, unitVars>>

\* orchestrator.py:372-375 (erase_source_data) and 333-336
\* (delete_source_fully): DELETE FROM documents WHERE doc_id=?; commit.  It
\* waits while another connection holds the write transaction.
EraseDocument(d) ==
    /\ txn.pc = "idle"
    /\ DbNotebook \in DOMAIN db
    /\ \E x \in db[DbNotebook].documents : x.doc_id = d
    /\ db' = Put(db, DbNotebook, DeleteDocument(db[DbNotebook], d))
    /\ UNCHANGED <<runs, txn, pending, seen, chatVars, storeVars, searchVars, unitVars>>

\* documents.py:112-115, 133-138: set_document_tags replaces the tags of a
\* document; document_tags.doc_id references documents (schema.py:82)
set_document_tags(d) ==
    /\ txn.pc = "idle"
    /\ DbNotebook \in DOMAIN db
    /\ \E x \in db[DbNotebook].documents :
          /\ x.doc_id = d
          /\ db' = Put(db, DbNotebook,
                       [db[DbNotebook] EXCEPT !.document_tags =
                           {t \in @ : t.doc_id # d} \cup {[doc_id |-> d, ver |-> x.ver]}])
    /\ UNCHANGED <<runs, txn, pending, seen, chatVars, storeVars, searchVars, unitVars>>

\* search.py: a query through another connection while upsert_document is
\* running; its result is kept until the writer ends
Query(q, d) ==
    /\ txn.pc # "idle"
    /\ seen' = [seen EXCEPT ![q] = [doc_id |-> d, view |-> View(db[DbNotebook], d)]]
    /\ UNCHANGED <<db, runs, txn, pending, chatVars, storeVars, searchVars, unitVars>>

NextDb ==
    \/ \E d \in SourceIds, vec \in VecsUpTo(MaxChunks) : TxBegin(d, vec)
    \/ TxDeleteEmbeddings
    \/ TxDeleteFts
    \/ TxDeleteChunks
    \/ TxInsertChunk
    \/ TxSetTags
    \/ TxCommit
    \/ CrashInTxn
    \/ \E d \in SourceIds : EraseDocument(d)
    \/ \E d \in SourceIds : set_document_tags(d)
    \/ \E q \in Readers, d \in SourceIds : Query(q, d)

\* the rows of document d in `view` are exactly what one upsert_document
\* call wrote (or, with no document row, nothing at all)
CompleteVersion(view, d) ==
    \/ view.documents = {} /\ view.chunks = {} /\ view.document_tags = {}
    \/ \E x \in view.documents :
          /\ view.documents = {x}
          /\ x.doc_id = d
          /\ Cardinality(view.chunks) = Len(x.ver.vec)
          /\ {c.chunk_index : c \in view.chunks} = 0..(Len(x.ver.vec) - 1)
          /\ \A c \in view.chunks :
                /\ c.ver = x.ver
                /\ [rowid |-> c.rowid, doc_id |-> d, ver |-> x.ver] \in view.chunks_fts
                /\ [chunk_rowid |-> c.rowid, doc_id |-> d, ver |-> x.ver,
                    nonzero |-> x.ver.vec[c.chunk_index + 1]] \in view.chunk_embeddings
          /\ \A t \in view.document_tags : t.ver = x.ver

Workers == {"w1", "w2"}
Idle == [pc |-> "idle", sid |-> "none", run |-> 0, n |-> 0, json_run |-> 0, vec |-> <<>>]
NoReport == [op |-> "none", id |-> "none"]
NoDelete == [pc |-> "idle", notebook_id |-> "none"]

\* schemas/sources.py:11-26: a Source and the defaults of the fields the
\* constructor calls leave out
Source(n, status, has_docs, has_parsing, order) ==
    [notebook_id |-> n, status |-> status, has_docs |-> has_docs,
     has_parsing |-> has_parsing, has_base |-> FALSE,
     embeddings_status |-> "available", index_warning |-> "none",
     sort_order |-> order]

\* dict.setdefault(k, v)
SetDefault(d, k, v) == IF k \in DOMAIN d THEN d ELSE Put(d, k, v)

\* The result of `metadata, _ = asyncio.run(index_source(...))`
\* (orchestrator.py:254): the DocumentMetadata of this parse.
index_source(run, n) == [run |-> run, total_chunks |-> n]

SourcesOf(tab, n) == {s \in DOMAIN tab : tab[s].notebook_id = n}

\* global_db.py:171-178
get_max_sort_order(n) ==
    IF SourcesOf(g_sources, n) = {} THEN 0
    ELSE Max({g_sources[s].sort_order : s \in SourcesOf(g_sources, n)})

\* rank of a source in creation order (added_at)
SrcIndex(s) == CHOOSE i \in 1..Len(SourceIdSeq) : SourceIdSeq[i] = s

\* ORDER BY sort_order, added_at (global_db.py:194, orchestrator.py:345-348)
Before(tab, a, b) ==
    \/ tab[a].sort_order < tab[b].sort_order
    \/ tab[a].sort_order = tab[b].sort_order /\ SrcIndex(a) < SrcIndex(b)

\* global_db.py:190-199 renumber_sort_orders, orchestrator.py:345-350
Renumber(tab, n) ==
    [s \in DOMAIN tab |->
        IF tab[s].notebook_id = n
          THEN [tab[s] EXCEPT !.sort_order =
                   1 + Cardinality({t \in SourcesOf(tab, n) : Before(tab, t, s)})]
          ELSE tab[s]]

\* a thread that has fetched `source = self.sources.get(source_id)`
\* (orchestrator.py:233) keeps the object alive
Held(s, but) ==
    \E u \in Workers \ but : workers[u].sid = s /\ workers[u].pc \notin {"idle", "start"}

\* self.sources.pop(...) for the ids in S: objects still held by a worker
\* stay reachable from that worker only
Detach(S) ==
    [s \in DOMAIN detached \cup {x \in S : Held(x, {})} |->
        IF s \in DOMAIN detached THEN detached[s] ELSE sources[s]]

\* the Source object a worker writes to
ObjOf(s) == IF s \in DOMAIN sources THEN sources[s] ELSE detached[s]

InitStore ==
    /\ notebooks = {"n1"}
    /\ sources = <<>>
    /\ detached = <<>>
    /\ parsing_settings = [n \in {"n1"} |-> FALSE]
    /\ g_notebooks = {"n1"}
    /\ g_sources = <<>>
    /\ g_settings = [n \in {"n1"} |-> FALSE]
    /\ docfiles = <<>>
    /\ pjson = <<>>
    /\ citations = {}
    /\ blocks = {}
    /\ workers = [w \in Workers |-> Idle]
    /\ deleter = NoDelete
    /\ nb_used = 1
    /\ src_used = 0
    /\ lastparse = <<>>
    /\ reported = NoReport
    /\ requests = 0

\* ------------------------------------------------ notebooks
\* orchestrator.py:125-151 (POST /notebooks)
create_notebook ==
    /\ nb_used < Len(NotebookIdSeq)
    /\ LET n == NotebookIdSeq[nb_used + 1]
       IN  /\ notebooks' = notebooks \cup {n}
           /\ messages' = SetDefault(messages, n, <<>>)
           /\ chat_versions' = SetDefault(chat_versions, n, 0)
           /\ parsing_settings' = Put(parsing_settings, n, FALSE)
           /\ g_notebooks' = g_notebooks \cup {n}
           /\ g_settings' = Put(g_settings, n, FALSE)
    /\ nb_used' = nb_used + 1
    /\ reported' = NoReport
    /\ UNCHANGED <<sources, detached, g_sources, docfiles, pjson, citations, blocks,
                   workers, deleter, src_used, lastparse, db, runs, chatRest, dbRest, searchVars, unitVars>>

\* routers/notebooks.py:72-77, orchestrator.py:398-416
update_parsing_settings(n, auto) ==
    /\ n \in notebooks
    /\ parsing_settings' = Put(parsing_settings, n, auto)
    /\ g_settings' = Put(g_settings, n, auto)
    /\ reported' = NoReport
    /\ UNCHANGED <<notebooks, sources, detached, g_notebooks, g_sources, docfiles, pjson,
                   citations, blocks, workers, deleter, nb_used, src_used, lastparse,
                   db, runs, messages, chat_versions, chatRest, dbRest, searchVars, unitVars>>

\* ------------------------------------------------ adding a source
\* threading.Thread(target=self._index_source_sync, args=(source.id,)).start()
\* (orchestrator.py:223-224, 301-302) on a free thread slot
FreeWorker == CHOOSE w \in Workers : workers[w].pc = "idle"
CanStart == runs < MaxRuns /\ \E w \in Workers : workers[w].pc = "idle"
StartThread(s) ==
    [workers EXCEPT ![FreeWorker] = [Idle EXCEPT !.pc = "start", !.sid = s, !.run = runs + 1]]

\* orchestrator.py:197-225 add_source_from_path(notebook_id, path) with
\* indexed=False; `exists` is file_path.exists()
add_source_from_path(n, exists) ==
    LET s == SourceIdSeq[src_used + 1]
        should_index == Get(parsing_settings, n, FALSE)
        source == Source(n, IF should_index THEN "indexing" ELSE "new", exists, FALSE,
                         get_max_sort_order(n) + 1)
    IN  /\ src_used < Len(SourceIdSeq)
        /\ should_index => CanStart
        /\ parsing_settings' = SetDefault(parsing_settings, n, FALSE)
        /\ sources' = Put(sources, s, source)
        /\ g_sources' = Put(g_sources, s, source)
        /\ src_used' = src_used + 1
        /\ workers' = IF should_index THEN StartThread(s) ELSE workers
        /\ runs' = IF should_index THEN runs + 1 ELSE runs
        /\ reported' = NoReport
        /\ UNCHANGED <<notebooks, detached, g_notebooks, g_settings, pjson, citations,
                       blocks, deleter, nb_used, lastparse, db, messages, chat_versions,
                       chatRest, dbRest, searchVars, unitVars>>

\* routers/sources.py:124-140, orchestrator.py:227-230: the upload is written
\* to a new path under DOCS_DIR/<notebook>, then registered
save_upload(n) ==
    /\ n \in notebooks
    /\ src_used < Len(SourceIdSeq)
    /\ docfiles' = Put(docfiles, SourceIdSeq[src_used + 1], n)
    /\ add_source_from_path(n, TRUE)

\* routers/sources.py:143-146: a path named by the client; the file may be
\* anywhere, or nowhere
add_path(n, exists) ==
    /\ n \in notebooks
    /\ src_used < Len(SourceIdSeq)
    /\ docfiles' = IF exists THEN Put(docfiles, SourceIdSeq[src_used + 1], "ext") ELSE docfiles
    /\ add_source_from_path(n, exists)

\* orchestrator.py:295-303 (POST /sources/{id}/reparse)
reparse_source(s) ==
    /\ s \in DOMAIN sources
    /\ CanStart
    /\ sources' = Put(sources, s, [sources[s] EXCEPT !.status = "indexing"])
    /\ g_sources' = Put(g_sources, s, sources'[s])
    /\ workers' = StartThread(s)
    /\ runs' = runs + 1
    /\ reported' = NoReport
    /\ UNCHANGED <<notebooks, detached, parsing_settings, g_notebooks, g_settings,
                   docfiles, pjson, citations, blocks, deleter, nb_used, src_used,
                   lastparse, db, messages, chat_versions, chatRest, dbRest, searchVars, unitVars>>

\* ------------------------------------------------ the indexing thread
\* the thread ends having last written `rec` to its Source object, and
\* _global_db.upsert_source(source.model_dump()) (orchestrator.py:285, 291);
\* `reported` records which of the two log lines (277/281, 287) the run wrote
EndRun(w, rec) ==
    LET s == workers[w].sid
    IN  /\ sources' = IF s \in DOMAIN sources THEN Put(sources, s, rec) ELSE sources
        /\ detached' = IF s \in DOMAIN sources THEN detached
                       ELSE IF Held(s, {w}) THEN Put(detached, s, rec)
                       ELSE Pop(detached, s)
        /\ g_sources' = Put(g_sources, s, rec)
        /\ workers' = [workers EXCEPT ![w] = Idle]
        /\ reported' = [op |-> IF rec.status = "failed" THEN "run_failed" ELSE "run_indexed",
                        id |-> s]

\* Variant of the except branch that sets status "failed" and leaves
\* has_base as it was
WorkerFails_keeps_base(w) ==
    EndRun(w, [ObjOf(workers[w].sid) EXCEPT !.status = "failed"])

\* orchestrator.py:286-293: the except branch of _index_source_sync
WorkerFails(w) ==
    EndRun(w, [ObjOf(workers[w].sid) EXCEPT !.status = "failed", !.has_base = FALSE])

\* orchestrator.py:233-236
WGet(w) ==
    /\ workers[w].pc = "start"
    /\ LET s == workers[w].sid
       IN  IF s \in DOMAIN sources
             THEN /\ sources' = Put(sources, s, [sources[s] EXCEPT !.status = "indexing"])
                  /\ workers' = [workers EXCEPT ![w].pc = "parse"]
             ELSE /\ sources' = sources
                  /\ workers' = [workers EXCEPT ![w] = Idle]
    /\ reported' = NoReport
    /\ UNCHANGED <<notebooks, detached, parsing_settings, g_notebooks, g_sources,
                   g_settings, docfiles, pjson, citations, blocks, deleter, nb_used,
                   src_used, lastparse, db, runs, messages, chat_versions, chatRest,
                   dbRest, searchVars, unitVars>>

\* orchestrator.py:238-262: get_parsing_settings (state.py:40-43), then
\* index_source: DocumentParser.parse (parse/parser.py:25-103) raises when
\* the file is missing or cannot be parsed, else saves the parsing JSON
\* (parse/serializer.py:14-23); index_service.py:84-86 replaces the source's
\* entries of INDEXED_BLOCKS
WParse(w) ==
    /\ workers[w].pc = "parse"
    /\ LET s == workers[w].sid
           nb == ObjOf(s).notebook_id
       IN  /\ parsing_settings' = SetDefault(parsing_settings, nb, FALSE)
           /\ \/ /\ WorkerFails(w)
                 /\ UNCHANGED <<pjson, blocks, lastparse>>
              \/ /\ s \in DOMAIN docfiles
                 /\ \E n \in 0..MaxChunks :
                       LET metadata == index_source(workers[w].run, n)
                       IN  /\ pjson' = Put(pjson, s, [notebook_id |-> nb, run |-> metadata.run,
                                                      total_chunks |-> metadata.total_chunks])
                           /\ lastparse' = Put(lastparse, s, metadata.total_chunks)
                           /\ workers' = [workers EXCEPT ![w].pc = "embed",
                                                         ![w].n = metadata.total_chunks]
                 /\ blocks' = blocks \cup {[notebook_id |-> nb, source_id |-> s]}
                 /\ reported' = NoReport
                 /\ UNCHANGED <<sources, detached, g_sources>>
    /\ UNCHANGED <<notebooks, g_notebooks, g_settings, docfiles, citations, deleter,
                   nb_used, src_used, db, runs, messages, chat_versions, chatRest, dbRest, searchVars, unitVars>>

\* orchestrator.py:263-265: embed_document_from_parsing reads the parsing
\* JSON from disk (embedding_service.py:350-359) and embeds every chunk; a
\* chunk whose vector is all zeros is embedding_failed
WEmbed(w) ==
    /\ workers[w].pc = "embed"
    /\ LET s == workers[w].sid
       IN  IF s \in DOMAIN pjson
             THEN /\ \E vec \in [1..pjson[s].total_chunks -> BOOLEAN] :
                        workers' = [workers EXCEPT ![w].pc = "upsert",
                                                   ![w].json_run = pjson[s].run,
                                                   ![w].vec = vec]
                  /\ reported' = NoReport
                  /\ UNCHANGED <<sources, detached, g_sources>>
             ELSE WorkerFails(w)
    /\ UNCHANGED <<notebooks, parsing_settings, g_notebooks, g_settings, docfiles, pjson,
                   citations, blocks, deleter, nb_used, src_used, lastparse, db, runs,
                   messages, chat_versions, chatRest, dbRest, searchVars, unitVars>>

\* Variant of a failing upsert_document whose DELETE statements stay in
\* the database file
UpsertFails_partial(w) ==
    LET s == workers[w].sid
        nb == ObjOf(s).notebook_id
        files == db_for_notebook(db, nb)
    IN  /\ db' = Put(files, nb, DeleteChunks(DeleteFts(DeleteEmbeddings(files[nb], s), s), s))
        /\ WorkerFails(w)

\* orchestrator.py:266-267, 286-293: db_for_notebook opens the file, a
\* statement of upsert_document raises before conn.commit()
\* (documents.py:104); the connection is dropped with its transaction open,
\* which SQLite rolls back
UpsertFails(w) ==
    /\ db' = db_for_notebook(db, ObjOf(workers[w].sid).notebook_id)
    /\ WorkerFails(w)

\* orchestrator.py:266-273: db_for_notebook, upsert_document, close
WUpsert(w) ==
    /\ workers[w].pc = "upsert"
    /\ \/ /\ LET s == workers[w].sid
                 nb == ObjOf(s).notebook_id
                 files == db_for_notebook(db, nb)
             IN  db' = Put(files, nb,
                           upsert_document(files[nb], s,
                                           Version(workers[w].run, workers[w].vec),
                                           Version(workers[w].json_run, workers[w].vec),
                                           workers[w].vec))
          /\ workers' = [workers EXCEPT ![w].pc = "finish"]
          /\ reported' = NoReport
          /\ UNCHANGED <<sources, detached, g_sources>>
       \/ UpsertFails(w)
    /\ UNCHANGED <<notebooks, parsing_settings, g_notebooks, g_settings, docfiles, pjson,
                   citations, blocks, deleter, nb_used, src_used, lastparse, runs,
                   messages, chat_versions, chatRest, dbRest, searchVars, unitVars>>

\* orchestrator.py:265, 274-285
WFinish(w) ==
    /\ workers[w].pc = "finish"
    /\ LET vector_ready == \E i \in 1..Len(workers[w].vec) : workers[w].vec[i]
       IN  EndRun(w, [ObjOf(workers[w].sid) EXCEPT
                         !.status = "indexed", !.has_parsing = TRUE, !.has_base = TRUE,
                         !.embeddings_status =
                             IF vector_ready THEN "available" ELSE "unavailable",
                         !.index_warning =
                             IF vector_ready THEN "none" ELSE "indexed (text-only)"])
    /\ UNCHANGED <<notebooks, parsing_settings, g_notebooks, g_settings, docfiles, pjson,
                   citations, blocks, deleter, nb_used, src_used, lastparse, db, runs,
                   messages, chat_versions, chatRest, dbRest, searchVars, unitVars>>

\* ------------------------------------------------ requests on one source
\* routers/sources.py:157-180: PATCH /sources/{id}; of its effects the model
\* keeps store.persist_source (orchestrator.py:392-396)
update_source(s) ==
    /\ s \in DOMAIN sources
    /\ g_sources' = Put(g_sources, s, sources[s])
    /\ reported' = NoReport
    /\ UNCHANGED <<notebooks, sources, detached, parsing_settings, g_notebooks, g_settings,
                   docfiles, pjson, citations, blocks, workers, deleter, nb_used,
                   src_used, lastparse, db, runs, messages, chat_versions, chatRest,
                   dbRest, searchVars, unitVars>>

\* routers/sources.py:226-230, orchestrator.py:382-390 and 355-364:
\* delete_source_file for every source of the notebook that has_docs
delete_all_source_files(n) ==
    /\ n \in notebooks
    /\ LET hit == {s \in SourcesOf(sources, n) : sources[s].has_docs}
       IN  /\ hit # {}
           /\ docfiles' = [s \in DOMAIN docfiles \ hit |-> docfiles[s]]
           /\ sources' = [s \in DOMAIN sources |->
                             IF s \in hit THEN [sources[s] EXCEPT !.has_docs = FALSE]
                             ELSE sources[s]]
           /\ g_sources' = [s \in DOMAIN g_sources \cup hit |->
                               IF s \in hit THEN sources'[s] ELSE g_sources[s]]
    /\ reported' = NoReport
    /\ UNCHANGED <<notebooks, detached, parsing_settings, g_notebooks, g_settings, pjson,
                   citations, blocks, workers, deleter, nb_used, src_used, lastparse,
                   db, runs, messages, chat_versions, chatRest, dbRest, searchVars, unitVars>>

\* orchestrator.py:366-380 (DELETE /sources/{id}/erase)
erase_source_data(s) ==
    /\ s \in DOMAIN sources
    /\ pjson' = Pop(pjson, s)
    /\ LET nb == sources[s].notebook_id
           files == db_for_notebook(db, nb)
       IN  db' = Put(files, nb, DeleteDocument(files[nb], s))
    /\ sources' = Put(sources, s, [sources[s] EXCEPT !.has_parsing = FALSE,
                                                     !.has_base = FALSE,
                                                     !.status = "new"])
    /\ g_sources' = Put(g_sources, s, sources'[s])
    /\ reported' = [op |-> "erase_source_data", id |-> s]
    /\ UNCHANGED <<notebooks, detached, parsing_settings, g_notebooks, g_settings,
                   docfiles, citations, blocks, workers, deleter, nb_used, src_used,
                   lastparse, runs, messages, chat_versions, chatRest, dbRest, searchVars, unitVars>>

\* orchestrator.py:318-353 (DELETE /sources/{id}); state.py:123-134 removes the
\* citations of the source's notebook that name it
delete_source_fully(s) ==
    /\ s \in DOMAIN sources
    /\ LET nb == sources[s].notebook_id
           files == db_for_notebook(db, nb)
       IN  /\ docfiles' = Pop(docfiles, s)
           /\ pjson' = Pop(pjson, s)
           /\ db' = Put(files, nb, DeleteDocument(files[nb], s))
           /\ g_sources' = Renumber(Pop(g_sources, s), nb)
           /\ sources' = Renumber(Pop(sources, s), nb)
           /\ detached' = Detach({s})
           /\ citations' = citations \ {[notebook_id |-> nb, source_id |-> s]}
    /\ reported' = [op |-> "delete_source_fully", id |-> s]
    /\ UNCHANGED <<notebooks, parsing_settings, g_notebooks, g_settings, blocks, workers,
                   deleter, nb_used, src_used, lastparse, runs, messages, chat_versions,
                   chatRest, dbRest, searchVars, unitVars>>

\* routers/citations.py:22-36, state.py:85-114: a citation of a source of
\* the notebook is saved under CITATIONS_DIR/<notebook>
save_citation(n, s) ==
    /\ n \in notebooks
    /\ s \in SourcesOf(sources, n)
    /\ [notebook_id |-> n, source_id |-> s] \notin citations
    /\ citations' = citations \cup {[notebook_id |-> n, source_id |-> s]}
    /\ reported' = NoReport
    /\ UNCHANGED <<notebooks, sources, detached, parsing_settings, g_notebooks, g_sources,
                   g_settings, docfiles, pjson, blocks, workers, deleter, nb_used,
                   src_used, lastparse, db, runs, messages, chat_versions, chatRest,
                   dbRest, searchVars, unitVars>>

\* ------------------------------------------------ reordering
\* the request bodies of PATCH .../sources/reorder: lists of one or two ids,
\* repeated ids included (schemas/sources.py:74-75 puts no constraint)
OrderedIdLists ==
    {<<a>> : a \in SourceIds} \cup {<<a, b>> : a \in SourceIds, b \in SourceIds}

\* global_db.py:180-188 and orchestrator.py:313-315: position idx (from 1) is
\* stored as sort_order, in list order, so the last occurrence of an id wins
Reordered(tab, ordered_ids) ==
    [s \in DOMAIN tab |->
        IF \E i \in 1..Len(ordered_ids) : ordered_ids[i] = s
          THEN [tab[s] EXCEPT !.sort_order =
                   Max({i \in 1..Len(ordered_ids) : ordered_ids[i] = s})]
          ELSE tab[s]]

\* routers/sources.py:149-154, orchestrator.py:305-316
reorder_sources(n, ordered_ids) ==
    /\ n \in notebooks
    /\ \A i \in 1..Len(ordered_ids) : ordered_ids[i] \in SourcesOf(sources, n)
    /\ g_sources' = [s \in DOMAIN g_sources |->
                        IF g_sources[s].notebook_id = n
                          THEN Reordered(g_sources, ordered_ids)[s] ELSE g_sources[s]]
    /\ sources' = Reordered(sources, ordered_ids)
    /\ reported' = NoReport
    /\ UNCHANGED <<notebooks, detached, parsing_settings, g_notebooks, g_settings,
                   docfiles, pjson, citations, blocks, workers, deleter, nb_used,
                   src_used, lastparse, db, runs, messages, chat_versions, chatRest,
                   dbRest, searchVars, unitVars>>

\* ------------------------------------------------ duplicating a notebook
\* orchestrator.py:491-520: the copied database file with doc_id rewritten in
\* documents, chunks and document_tags; the index terms and vectors stored
\* per rowid are copied as they are and now stand for the renamed chunks
CopyDb(img, ren) ==
    [documents |-> {[x EXCEPT !.doc_id = ren[@]] : x \in img.documents},
     chunks |-> {[x EXCEPT !.doc_id = ren[@]] : x \in img.chunks},
     chunks_fts |-> {[x EXCEPT !.doc_id = ren[@]] : x \in img.chunks_fts},
     chunk_embeddings |-> {[x EXCEPT !.doc_id = ren[@]] : x \in img.chunk_embeddings},
     document_tags |-> {[x EXCEPT !.doc_id = ren[@]] : x \in img.document_tags}]

\* orchestrator.py:426-522 (POST /notebooks/{id}/duplicate)
duplicate_notebook(n) ==
    LET orig_sources == SourcesOf(sources, n)
        new_nb_id == NotebookIdSeq[nb_used + 1]
        rank(s) == Cardinality({t \in orig_sources : SrcIndex(t) <= SrcIndex(s)})
        id_map == [s \in orig_sources |-> SourceIdSeq[src_used + rank(s)]]
        ren == [d \in SourceIds |-> IF d \in orig_sources THEN id_map[d] ELSE d]
        old_of(t) == CHOOSE s \in orig_sources : id_map[s] = t
        new_ids == {id_map[s] : s \in orig_sources}
        new_source(s) ==
            [Source(new_nb_id,
                    IF s \in DOMAIN docfiles THEN sources[s].status ELSE "new",
                    s \in DOMAIN docfiles,
                    sources[s].has_parsing /\ s \in DOMAIN pjson,
                    sources[s].sort_order)
                EXCEPT !.embeddings_status = sources[s].embeddings_status,
                       !.index_warning = sources[s].index_warning]
        added == [t \in new_ids |-> new_source(old_of(t))]
        with_file == {t \in new_ids : old_of(t) \in DOMAIN docfiles}
        with_json == {t \in new_ids : old_of(t) \in DOMAIN pjson}
        with_parse == {t \in new_ids : old_of(t) \in DOMAIN lastparse}
    IN  /\ n \in notebooks
        /\ nb_used < Len(NotebookIdSeq)
        /\ src_used + Cardinality(orig_sources) <= Len(SourceIdSeq)
        /\ notebooks' = notebooks \cup {new_nb_id}
        /\ messages' = SetDefault(messages, new_nb_id, <<>>)
        /\ chat_versions' = SetDefault(chat_versions, new_nb_id, 0)
        /\ parsing_settings' =
               Put(SetDefault(parsing_settings, n, FALSE), new_nb_id,
                   Get(parsing_settings, n, FALSE))
        /\ g_notebooks' = g_notebooks \cup {new_nb_id}
        /\ g_settings' = Put(g_settings, new_nb_id, Get(parsing_settings, n, FALSE))
        /\ sources' = added @@ sources
        /\ g_sources' = added @@ g_sources
        /\ docfiles' = [t \in with_file |-> new_nb_id] @@ docfiles
        /\ pjson' = [t \in with_json |-> [pjson[old_of(t)] EXCEPT !.notebook_id = new_nb_id]]
                      @@ pjson
        /\ lastparse' = [t \in with_parse |-> lastparse[old_of(t)]] @@ lastparse
        /\ db' = IF n \in DOMAIN db THEN Put(db, new_nb_id, CopyDb(db[n], ren)) ELSE db
        /\ nb_used' = nb_used + 1
        /\ src_used' = src_used + Cardinality(orig_sources)
        /\ reported' = NoReport
        /\ UNCHANGED <<detached, citations, blocks, workers, deleter, runs, chatRest,
                       dbRest, searchVars, unitVars>>

\* ------------------------------------------------ deleting a notebook
\* orchestrator.py:163-172: every source of the notebook is popped and its
\* file unlinked
DeleteNotebookSources(n) ==
    /\ deleter.pc = "idle"
    /\ n \in notebooks
    /\ LET gone == SourcesOf(sources, n)
       IN  /\ docfiles' = [s \in DOMAIN docfiles \ gone |-> docfiles[s]]
           /\ sources' = [s \in DOMAIN sources \ gone |-> sources[s]]
           /\ detached' = Detach(gone)
    /\ deleter' = [pc |-> "dirs", notebook_id |-> n]
    /\ reported' = NoReport
    /\ UNCHANGED <<notebooks, parsing_settings, g_notebooks, g_sources, g_settings, pjson,
                   citations, blocks, workers, nb_used, src_used, lastparse, db, runs,
                   messages, chat_versions, chatRest, dbRest, searchVars, unitVars>>

\* orchestrator.py:174-178: the files left in DOCS_DIR/<id> are unlinked and
\* the directory removed; then the files of CHUNKS_DIR/<id> are unlinked
DeleteNotebookDirs ==
    /\ deleter.pc = "dirs"
    /\ LET n == deleter.notebook_id
       IN  /\ docfiles' = [s \in {x \in DOMAIN docfiles : docfiles[x] # n} |-> docfiles[s]]
           /\ pjson' = [s \in {x \in DOMAIN pjson : pjson[x].notebook_id # n} |-> pjson[s]]
    /\ deleter' = [deleter EXCEPT !.pc = "rmdir"]
    /\ reported' = NoReport
    /\ UNCHANGED <<notebooks, sources, detached, parsing_settings, g_notebooks, g_sources,
                   g_settings, citations, blocks, workers, nb_used, src_used, lastparse,
                   db, runs, messages, chat_versions, chatRest, dbRest, searchVars, unitVars>>

\* orchestrator.py:179-195: directory.rmdir() of CHUNKS_DIR/<id> raises when a
\* file was written there since the sweep, and the request ends with the
\* exception; otherwise citations, database file, memory and GlobalStore
\* (global_db.py:115-120) follow and the method returns True
DeleteNotebookFinish ==
    /\ deleter.pc = "rmdir"
    /\ LET n == deleter.notebook_id
       IN  IF \E s \in DOMAIN pjson : pjson[s].notebook_id = n
             THEN /\ reported' = [op |-> "delete_notebook_failed", id |-> n]
                  /\ UNCHANGED <<notebooks, parsing_settings, g_notebooks, g_sources,
                                 g_settings, citations, db, messages, chat_versions>>
             ELSE /\ citations' = {c \in citations : c.notebook_id # n}
                  /\ db' = Pop(db, n)
                  /\ notebooks' = notebooks \ {n}
                  /\ messages' = Pop(messages, n)
                  /\ chat_versions' = Pop(chat_versions, n)
                  /\ parsing_settings' = Pop(parsing_settings, n)
                  /\ g_sources' = [s \in DOMAIN g_sources \ SourcesOf(g_sources, n) |->
                                      g_sources[s]]
                  /\ g_settings' = Pop(g_settings, n)
                  /\ g_notebooks' = g_notebooks \ {n}
                  /\ reported' = [op |-> "delete_notebook", id |-> n]
    /\ deleter' = NoDelete
    /\ UNCHANGED <<sources, detached, docfiles, pjson, blocks, workers, nb_used, src_used,
                   lastparse, runs, chatRest, dbRest, searchVars, unitVars>>

\* Variant of seed_data that corrects the restored objects but skips
\* _global_db.upsert_source(src_dict) for the changed rows
Restart_no_writeback ==
    LET demo == g_notebooks = {}
        first == NotebookIdSeq[nb_used + 1]
        nbs == IF demo THEN {first} ELSE g_notebooks
        kept == {s \in DOMAIN g_sources : g_sources[s].notebook_id \in g_notebooks}
        fixed(s) == [g_sources[s] EXCEPT
                        !.has_docs = @ /\ s \in DOMAIN docfiles,
                        !.status = IF @ = "indexing" THEN "failed" ELSE @]
    IN  /\ demo => nb_used < Len(NotebookIdSeq)
        /\ notebooks' = nbs
        /\ messages' = [n \in nbs |-> <<>>]
        /\ chat_versions' = [n \in nbs |-> 0]
        /\ parsing_settings' = IF demo THEN Put(g_settings, first, FALSE) ELSE g_settings
        /\ g_settings' = parsing_settings'
        /\ g_notebooks' = nbs
        /\ nb_used' = IF demo THEN nb_used + 1 ELSE nb_used
        /\ sources' = [s \in kept |-> fixed(s)]
        /\ g_sources' = g_sources
        /\ detached' = <<>>
        /\ blocks' = {}
        /\ workers' = [w \in Workers |-> Idle]
        /\ deleter' = NoDelete
        /\ reported' = [op |-> "seed_data",
                        id |-> IF \E s \in kept : fixed(s).has_docs # g_sources[s].has_docs
                                                   /\ fixed(s).status # g_sources[s].status
                                 THEN "changed" ELSE "unchanged"]
        /\ UNCHANGED <<docfiles, pjson, citations, src_used, lastparse, db, runs, chatRest,
                       dbRest, searchVars, unitVars>>

\* ------------------------------------------------ restart
\* orchestrator.py:75-107 seed_data in a new process: memory is rebuilt from
\* the GlobalStore; threads, Source objects and INDEXED_BLOCKS of the old
\* process are gone; files and databases stay
Restart ==
    LET demo == g_notebooks = {}
        first == NotebookIdSeq[nb_used + 1]
        nbs == IF demo THEN {first} ELSE g_notebooks
        kept == {s \in DOMAIN g_sources : g_sources[s].notebook_id \in g_notebooks}
        fixed(s) == [g_sources[s] EXCEPT
                        !.has_docs = @ /\ s \in DOMAIN docfiles,
                        !.status = IF @ = "indexing" THEN "failed" ELSE @]
    IN  /\ demo => nb_used < Len(NotebookIdSeq)
        /\ notebooks' = nbs
        /\ messages' = [n \in nbs |-> <<>>]
        /\ chat_versions' = [n \in nbs |-> 0]
        /\ parsing_settings' = IF demo THEN Put(g_settings, first, FALSE) ELSE g_settings
        /\ g_settings' = parsing_settings'
        /\ g_notebooks' = nbs
        /\ nb_used' = IF demo THEN nb_used + 1 ELSE nb_used
        /\ sources' = [s \in kept |-> fixed(s)]
        /\ g_sources' = [s \in DOMAIN g_sources |-> IF s \in kept THEN fixed(s) ELSE g_sources[s]]
        /\ detached' = <<>>
        /\ blocks' = {}
        /\ workers' = [w \in Workers |-> Idle]
        /\ deleter' = NoDelete
        /\ reported' = [op |-> "seed_data",
                        id |-> IF \E s \in kept : fixed(s).has_docs # g_sources[s].has_docs
                                                   /\ fixed(s).status # g_sources[s].status
                                 THEN "changed" ELSE "unchanged"]
        /\ UNCHANGED <<docfiles, pjson, citations, src_used, lastparse, db, runs, chatRest,
                       dbRest, searchVars, unitVars>>

\* a client request is served while fewer than MaxRequests have been; the
\* steps of threads and of a request already running are not counted
Request(A) == requests < MaxRequests /\ requests' = requests + 1 /\ A
Step(A) == A /\ UNCHANGED requests

NextStore ==
    \/ Request(create_notebook)
    \/ Request(\E n \in NotebookIds, auto \in BOOLEAN : update_parsing_settings(n, auto))
    \/ Request(\E n \in NotebookIds : save_upload(n))
    \/ Request(\E n \in NotebookIds, exists \in BOOLEAN : add_path(n, exists))
    \/ Request(\E s \in SourceIds : reparse_source(s))
    \/ Step(\E w \in Workers : WGet(w))
    \/ Step(\E w \in Workers : WParse(w))
    \/ Step(\E w \in Workers : WEmbed(w))
    \/ Step(\E w \in Workers : WUpsert(w))
    \/ Step(\E w \in Workers : WFinish(w))
    \/ Request(\E s \in SourceIds : update_source(s))
    \/ Request(\E n \in NotebookIds : delete_all_source_files(n))
    \/ Request(\E s \in SourceIds : erase_source_data(s))
    \/ Request(\E s \in SourceIds : delete_source_fully(s))
    \/ Request(\E n \in NotebookIds, s \in SourceIds : save_citation(n, s))
    \/ Request(\E n \in NotebookIds, ids \in OrderedIdLists : reorder_sources(n, ids))
    \/ Request(\E n \in NotebookIds : duplicate_notebook(n))
    \/ Request(\E n \in NotebookIds : DeleteNotebookSources(n))
    \/ Step(DeleteNotebookDirs)
    \/ Step(DeleteNotebookFinish)
    \/ Request(Restart)

\* all steps of one indexing thread
WorkerStep(w) == Step(WGet(w) \/ WParse(w) \/ WEmbed(w) \/ WUpsert(w) \/ WFinish(w))

\* ================================================ retrieval
\* Hybrid retrieval over one notebook database (search.py, search_service.py)
\* and the threshold filter of the chat handlers (routers/chat.py).

MaxRowid == 2         \* rowids the chunks table hands out at most
MaxRank == 3          \* length of a ranking given to _rrf_merge at most

SearchDocs == {"d1", "d2"}
TagNames == {"t1"}
Selections == {{}, {"d1"}}
ChatModes == {"rag", "model"}

\* chunk_text values, and chat messages after query.strip().split()
\* (search.py:59): a sequence of terms, each a sequence of characters
Texts == {<<"a", "b">>, <<"c", "d">>}
Messages == {<<>>, << <<"a", "b">> >>, << <<"a">> >>, << <<"z", "z">> >>,
             << <<"a", "b", "?">> >>}

\* embeddings stored with chunks; EmbeddingClient._zero() is the all-zero
\* vector (embedding_service.py:212-214)
ZeroVector == <<0, 0>>
Vecs == {ZeroVector, <<1, 0>>}

\* search_service.py:59
K == 60
\* routers/chat.py:63: search(..., top_n=5)
TopN == 5

\* scores are kept as exact fractions in lowest terms
RECURSIVE Gcd(_, _)
Gcd(a, b) == IF b = 0 THEN a ELSE Gcd(b, a % b)
Rat(n, d) == [num |-> n \div Gcd(n, d), den |-> d \div Gcd(n, d)]
RatAdd(a, b) == Rat(a.num * b.den + b.num * a.den, a.den * b.den)
RatGt(a, b) == a.num * b.den > b.num * a.den
RatEq(a, b) == a.num * b.den = b.num * a.den

\* sorted(xs, key=..., reverse=True) (search.py:124, search_service.py:70);
\* gt: the pairs <<i, j>> of positions with key(xs[i]) > key(xs[j]).
\* Python's sort is stable, also with reverse=True
SortedDesc(xs, gt) ==
    LET n == Len(xs)
        Pos(i) == Cardinality({j \in 1..n : <<j, i>> \in gt})
                  + Cardinality({j \in 1..i : <<j, i>> \notin gt /\ <<i, j>> \notin gt})
    IN  [p \in 1..n |-> xs[CHOOSE i \in 1..n : Pos(i) = p]]

\* LIMIT ? / list[:n]
Limit(xs, n) == SubSeq(xs, 1, IF n < Len(xs) THEN n ELSE Len(xs))

\* rows of the chunks table in rowid order, the order of a table scan
RECURSIVE ByRowid(_)
ByRowid(S) ==
    IF S = {} THEN <<>>
    ELSE LET c == CHOOSE x \in S : \A y \in S : x.rowid <= y.rowid
         IN  <<c>> \o ByRowid(S \ {c})

Reverse(xs) == [i \in 1..Len(xs) |-> xs[Len(xs) + 1 - i]]

\* Variant of the WHERE clause without the condition on tags
enabled_filter_clause_any_tag(img, c, selected) ==
    /\ c.doc_id \in DOMAIN img.documents
    /\ img.documents[c.doc_id].is_enabled
    /\ selected # {} => c.doc_id \in selected

\* search.py:12-31: d.is_enabled=1 AND c.is_enabled=1 (chunks are always
\* inserted with is_enabled=1, documents.py:88), the selected documents, and
\* no tag of the document with is_enabled=0
enabled_filter_clause(img, c, selected) ==
    /\ c.doc_id \in DOMAIN img.documents
    /\ img.documents[c.doc_id].is_enabled
    /\ selected # {} => c.doc_id \in selected
    /\ ~\E dt \in img.document_tags :
           dt.doc_id = c.doc_id /\ dt.tag \in DOMAIN img.tags /\ ~img.tags[dt.tag]

\* the columns of a result row that retrieval uses
Row(c) == [chunk_id |-> c.rowid, doc_id |-> c.doc_id]

\* chunks_fts MATCH ?: the query string must parse as an FTS5 expression; a
\* character outside the bareword set is a syntax error, and so is the
\* empty string
FtsSyntaxOk(message) ==
    /\ message # <<>>
    /\ \A i \in 1..Len(message) : \A j \in 1..Len(message[i]) : message[i][j] # "?"

\* c.chunk_text LIKE '%term%'
Like(term, text) ==
    \E i \in 0..(Len(text) - Len(term)) : SubSeq(text, i + 1, i + Len(term)) = term

\* search.py:34-90.  A chunk_text of the model is one token; MATCH needs
\* every term of the query among the tokens.  Rows of equal bm25 score and
\* rows of a query without ORDER BY come in scan order.
search_fts(img, message, top_k, selected) ==
    LET visible == {c \in img.chunks : enabled_filter_clause(img, c, selected)}
        rows == {c \in visible : \A i \in 1..Len(message) : message[i] = c.chunk_text}
        fallback_rows == {c \in visible : \E i \in 1..Len(message) : Like(message[i], c.chunk_text)}
        Rows(cs) == [i \in 1..Len(cs) |-> Row(cs[i])]
    IN  IF ~FtsSyntaxOk(message) THEN [stage |-> "error", rows |-> <<>>]
        ELSE IF rows # {} THEN [stage |-> "match", rows |-> Rows(Limit(ByRowid(rows), top_k))]
        ELSE IF message = <<>> THEN [stage |-> "empty", rows |-> <<>>]
        ELSE IF fallback_rows # {}
               THEN [stage |-> "like", rows |-> Rows(Limit(ByRowid(fallback_rows), top_k))]
        ELSE [stage |-> "newest", rows |-> Rows(Limit(Reverse(ByRowid(visible)), top_k))]

\* search.py:114-119 up to a positive factor: the vectors of the model have
\* components 0 and 1, so the cosine is not negative and its square, times
\* 4, orders rows as the cosine does; a zero norm counts as 1.0
Cosine(vec, query_vector) ==
    LET dot == vec[1] * query_vector[1] + vec[2] * query_vector[2]
        Norm2(v) == IF v[1] * v[1] + v[2] * v[2] = 0 THEN 1 ELSE v[1] * v[1] + v[2] * v[2]
    IN  (4 * dot * dot) \div (Norm2(vec) * Norm2(query_vector))

\* search.py:93-125
search_vector(img, query_vector, top_k, selected) ==
    LET rows == ByRowid({c \in img.chunks : enabled_filter_clause(img, c, selected)})
        scored == SortedDesc(rows,
                             {p \in (1..Len(rows)) \X (1..Len(rows)) :
                                 Cosine(rows[p[1]].embedding, query_vector)
                                 > Cosine(rows[p[2]].embedding, query_vector)})
    IN  Limit([i \in 1..Len(scored) |-> Row(scored[i])], top_k)

\* search_service.py:62-64, 66-68: one loop over a ranking; by_id is a dict,
\* which keeps its keys in insertion order
RECURSIVE Accumulate(_, _, _)
Accumulate(by_id, rows, rank) ==
    IF rows = <<>> THEN by_id
    ELSE LET row == Head(rows)
             key == row.chunk_id
             old == IF key \in DOMAIN by_id.item THEN by_id.item[key]
                    ELSE [row |-> row, rrf |-> Rat(0, 1)]
         IN  Accumulate(
                 [keys |-> IF key \in DOMAIN by_id.item THEN by_id.keys
                           ELSE Append(by_id.keys, key),
                  item |-> Put(by_id.item, key,
                               [old EXCEPT !.rrf = RatAdd(@, Rat(1, K + rank))])],
                 Tail(rows), rank + 1)

\* Variant that counts the ranks of the FTS list from 0
Fusion_fts_from_zero(vector_rows, fts_rows) ==
    LET by_id == Accumulate(Accumulate([keys |-> <<>>, item |-> <<>>], vector_rows, 1),
                            fts_rows, 0)
    IN  [i \in 1..Len(by_id.keys) |-> by_id.item[by_id.keys[i]]]

\* by_id.values() after both loops of _rrf_merge
Fusion(vector_rows, fts_rows) ==
    LET by_id == Accumulate(Accumulate([keys |-> <<>>, item |-> <<>>], vector_rows, 1),
                            fts_rows, 1)
    IN  [i \in 1..Len(by_id.keys) |-> by_id.item[by_id.keys[i]]]

\* search_service.py:57-71
rrf_merge(vector_rows, fts_rows, top_n) ==
    LET values == Fusion(vector_rows, fts_rows)
        merged == SortedDesc(values,
                             {p \in (1..Len(values)) \X (1..Len(values)) :
                                 RatGt(values[p[1]].rrf, values[p[2]].rrf)})
    IN  Limit(merged, top_n)

\* embedding_service.py:416-418, 216-257: the provider's vector for the
\* message, or the zero vector when the request fails
embed_query(message, ok) ==
    IF ~ok THEN ZeroVector
    ELSE IF message # <<>> /\ Head(Head(message)) = "a" THEN <<1, 0>>
    ELSE <<0, 1>>

\* search_service.py:74-122; `ok`: the embedding provider answers
search(img, eng, message, selected, top_n, ok) ==
    LET top_k == IF top_n * 3 > 10 THEN top_n * 3 ELSE 10
        vector_rows == IF eng = "available"
                         THEN search_vector(img, embed_query(message, ok), top_k, selected)
                         ELSE <<>>
        fts == search_fts(img, message, top_k, selected)
        merged == IF vector_rows = <<>>
                    THEN [i \in 1..Len(Limit(fts.rows, top_n)) |->
                             [row |-> fts.rows[i], rrf |-> Rat(0, 1)]]
                    ELSE rrf_merge(vector_rows, fts.rows, top_n)
    IN  [vector_rows |-> vector_rows, fts_rows |-> fts.rows, stage |-> fts.stage,
         result |-> [i \in 1..Len(merged) |->
                        [doc_id |-> merged[i].row.doc_id,
                         section_id |-> merged[i].row.chunk_id,
                         score |-> merged[i].rrf]]]

\* search_service.py:133-146
normalize_chunk_scores(chunks) ==
    IF chunks = <<>> THEN chunks
    ELSE LET m == CHOOSE i \in 1..Len(chunks) :
                      \A j \in 1..Len(chunks) : ~RatGt(chunks[j].score, chunks[i].score)
             max_score == chunks[m].score
         IN  IF max_score.num <= 0
               THEN [i \in 1..Len(chunks) |-> [chunks[i] EXCEPT !.score = Rat(1, 1)]]
               ELSE [i \in 1..Len(chunks) |->
                        [chunks[i] EXCEPT !.score = Rat(@.num * max_score.den,
                                                        @.den * max_score.num)]]

\* chat_modes.py:30-33 and routers/chat.py:65, in hundredths
SCORE_THRESHOLDS(mode) ==
    IF mode = "rag" THEN 75 ELSE IF mode = "model" THEN 50 ELSE 0

\* Variant that lets every chunk pass
filter_chunks_by_threshold_all(chunks, threshold) == chunks

\* search_service.py:149-151, threshold in hundredths
filter_chunks_by_threshold(chunks, threshold) ==
    SelectSeq(chunks, LAMBDA c : 100 * c.score.num >= threshold * c.score.den)

NoCall == [mode |-> "none", message |-> <<>>, selected |-> {}]
NoSearch == [vector_rows |-> <<>>, fts_rows |-> <<>>, stage |-> "none", result |-> <<>>]
NoFusion == [vector |-> <<>>, fts |-> <<>>, top_n |-> 0, merged |-> <<>>]

InitSearch ==
    /\ ndb = [documents |-> <<>>, tags |-> <<>>, document_tags |-> {}, chunks |-> {}]
    /\ engine = "available"
    /\ call = NoCall
    /\ found = NoSearch
    /\ cited = <<>>
    /\ fused = NoFusion

\* history is kept for one chat request at a time: requests that change
\* the tables or the engine are taken between chat requests
Forget == call = NoCall /\ UNCHANGED <<call, found, cited>>

\* what one item of embedded_chunks carries into the tables
ChunkInputs == [chunk_text : Texts, embedding : Vecs]
ChunkLists == UNION {[1..n -> ChunkInputs] : n \in 0..MaxChunks}

\* documents.py:15-104 on the tables a query reads: the document row with
\* its is_enabled, the document's chunks replaced by new rows (rowid: the
\* largest rowid left plus one), its tags cleared (tags=[], orchestrator.py:270)
IndexDocument(d, is_enabled, chunks) ==
    LET kept == {c \in ndb.chunks : c.doc_id # d}
        base == IF kept = {} THEN 0 ELSE Max({c.rowid : c \in kept})
    IN  /\ base + Len(chunks) <= MaxRowid
        /\ ndb' = [ndb EXCEPT
                      !.documents = Put(@, d, [is_enabled |-> is_enabled]),
                      !.chunks = kept \cup
                          {[rowid |-> base + i, doc_id |-> d,
                            chunk_text |-> chunks[i].chunk_text,
                            embedding |-> chunks[i].embedding] : i \in 1..Len(chunks)},
                      !.document_tags = {dt \in @ : dt.doc_id # d}]
        /\ Forget
        /\ UNCHANGED <<engine, fused, chatVars, dbVars, storeVars, unitVars>>

\* documents.py:107-110
set_document_enabled(d, enabled) ==
    /\ d \in DOMAIN ndb.documents
    /\ ndb' = [ndb EXCEPT !.documents = Put(@, d, [is_enabled |-> enabled])]
    /\ Forget
    /\ UNCHANGED <<engine, fused, chatVars, dbVars, storeVars, unitVars>>

\* documents.py:113-116, 126-131; document_tags.doc_id references documents
SetDocumentTags(d, tags) ==
    /\ d \in DOMAIN ndb.documents
    /\ ndb' = [ndb EXCEPT
                  !.tags = [t \in DOMAIN @ \cup tags |-> IF t \in DOMAIN @ THEN @[t] ELSE TRUE],
                  !.document_tags = {dt \in @ : dt.doc_id # d} \cup
                                    {[doc_id |-> d, tag |-> t] : t \in tags}]
    /\ Forget
    /\ UNCHANGED <<engine, fused, chatVars, dbVars, storeVars, unitVars>>

\* documents.py:119-123
set_tag_enabled(tag, enabled) ==
    /\ ndb' = [ndb EXCEPT !.tags = Put(@, tag, enabled)]
    /\ Forget
    /\ UNCHANGED <<engine, fused, chatVars, dbVars, storeVars, unitVars>>

\* search_service.py:22-54: the engine is dropped and built again at the
\* next search; its constructor probes the provider (embedding_service.py:158-168)
reconfigure_engine(up) ==
    /\ engine' = IF up THEN "available" ELSE "unavailable"
    /\ Forget
    /\ UNCHANGED <<ndb, fused, chatVars, dbVars, storeVars, unitVars>>

\* the engine after search(): a failed request for the query vector clears
\* EmbeddingClient._available (embedding_service.py:248-256)
EngineAfter(eng, ok) == IF eng = "available" /\ ~ok THEN "unavailable" ELSE eng

\* routers/chat.py:51-67 as called by chat (91-95) and chat_stream (169-171)
retrieve_and_filter(message, selected, mode, ok) ==
    /\ call \in {NoCall, [mode |-> mode, message |-> message, selected |-> selected]}
    /\ engine = "unavailable" => ok
    /\ LET raw == search(ndb, engine, message, selected, TopN, ok)
           normalized == normalize_chunk_scores(raw.result)
       IN  /\ found' = raw
           /\ cited' = filter_chunks_by_threshold(normalized, SCORE_THRESHOLDS(mode))
    /\ call' = [mode |-> mode, message |-> message, selected |-> selected]
    /\ engine' = EngineAfter(engine, ok)
    /\ UNCHANGED <<ndb, fused, chatVars, dbVars, storeVars, unitVars>>

\* routers/chat.py:86-88, 151-153: agent mode answers without retrieval
AgentAnswer(message) ==
    /\ call = NoCall
    /\ call' = [mode |-> "agent", message |-> message, selected |-> {}]
    /\ found' = NoSearch
    /\ cited' = <<>>
    /\ UNCHANGED <<ndb, engine, fused, chatVars, dbVars, storeVars, unitVars>>

\* the chat handler returns (routers/chat.py:113-114)
ChatDone ==
    /\ call # NoCall
    /\ call' = NoCall
    /\ found' = NoSearch
    /\ cited' = <<>>
    /\ UNCHANGED <<ndb, engine, fused, chatVars, dbVars, storeVars, unitVars>>

NextSearch ==
    \/ \E d \in SearchDocs, e \in BOOLEAN, cs \in ChunkLists : IndexDocument(d, e, cs)
    \/ \E d \in SearchDocs, e \in BOOLEAN : set_document_enabled(d, e)
    \/ \E d \in SearchDocs, tags \in SUBSET TagNames : SetDocumentTags(d, tags)
    \/ \E t \in TagNames, e \in BOOLEAN : set_tag_enabled(t, e)
    \/ \E up \in BOOLEAN : reconfigure_engine(up)
    \/ \E m \in Messages, sel \in Selections, mode \in ChatModes, ok \in BOOLEAN :
          retrieve_and_filter(m, sel, mode, ok)
    \/ \E m \in Messages : AgentAnswer(m)
    \/ ChatDone

\* ------------------------------------------------ one call of _rrf_merge
Candidates == {"A", "B", "C", "D"}
\* a ranking: candidates without repetition (chunk_id is the primary key of
\* chunks, schema.py:51)
Rankings ==
    {r \in UNION {[1..n -> Candidates] : n \in 0..MaxRank} :
        \A i, j \in 1..Len(r) : i # j => r[i] # r[j]}
RowsOf(r) == [i \in 1..Len(r) |-> [chunk_id |-> r[i], doc_id |-> "d1"]]

Fuse(vector, fts, top_n) ==
    /\ fused = NoFusion
    /\ LET merged == rrf_merge(RowsOf(vector), RowsOf(fts), top_n)
       IN  fused' = [vector |-> vector, fts |-> fts, top_n |-> top_n,
                     merged |-> [i \in 1..Len(merged) |-> merged[i].row.chunk_id]]
    /\ UNCHANGED <<ndb, engine, call, found, cited, chatVars, dbVars, storeVars, unitVars>>

NextFuse == \E vector \in Rankings, fts \in Rankings, top_n \in 1..MaxRank :
                Fuse(vector, fts, top_n)

\* ======================================================================
\* The answer of a chat request in rag and model mode (routers/chat.py)
\* ======================================================================
\* A text is a sequence of words and single spaces.
\* chat_modes.py:36-39
RAG_NO_SOURCES_MESSAGE == <<"nothing", " ", "relevant", " ", "found">>
\* what model_chat.py returns or yields
LLM_ANSWER == <<"answer">>
LLM_NOT_CONFIGURED == <<"provider", " ", "missing">>
LLM_REQUEST_FAILED == <<"request", " ", "failed">>

\* answer.split(" ") (chat.py:177)
Split(text) == SelectSeq(text, LAMBDA x : x # " ")
\* "".join of the yielded token texts, each f"{word} " (chat.py:178-181)
RECURSIVE JoinTokens(_)
JoinTokens(words) ==
    IF words = <<>> THEN <<>> ELSE <<Head(words), " ">> \o JoinTokens(Tail(words))
\* str.strip() at the end of a text
RECURSIVE Strip(_)
Strip(text) ==
    IF text # <<>> /\ text[Len(text)] = " " THEN Strip(SubSeq(text, 1, Len(text) - 1))
    ELSE text

\* what search() hands to _retrieve_and_filter: rows with their RRF score
RawScores == {Rat(0, 1), Rat(1, 61), Rat(2, 61), Rat(1, 31)}
RawChunkLists ==
    UNION {[1..n -> [chunk_id : {"k1"}, score : RawScores]] : n \in 0..2}

\* routers/chat.py:51-67 on the rows returned by search()
relevant_chunks(raw, mode) ==
    filter_chunks_by_threshold(normalize_chunk_scores(raw), SCORE_THRESHOLDS(mode))

NoAnswer ==
    [pc |-> "idle", kind |-> "none", notebook_id |-> "none", mode |-> "none",
     configured |-> FALSE, relevant |-> <<>>, snapshot |-> 0, checked |-> 0,
     branch |-> "none",
     answer |-> <<>>, reply |-> <<>>,
     citations |-> "none", llm_requests |-> 0, stored |-> <<>>, done |-> "none"]

InitAnswer == ans = NoAnswer

\* chat.py:82-97 and 144-174: the user message is stored, the stream takes its
\* snapshot of chat_version, retrieval runs and the branch is chosen
AnswerOpen(kind, n, mode, raw, configured) ==
    /\ ans.pc = "idle"
    /\ Len(Get(messages, n, <<>>)) < MaxHistory
    /\ messages' = add_message(messages, n, "user", kind)
    /\ LET relevant == relevant_chunks(raw, mode)
       IN  ans' = [NoAnswer EXCEPT
                      !.kind = kind, !.notebook_id = n, !.mode = mode,
                      !.configured = configured, !.relevant = relevant,
                      !.snapshot = get_chat_version(chat_versions, n),
                      !.pc = IF mode = "rag" /\ relevant = <<>> THEN "fixed" ELSE "llm"]
    /\ UNCHANGED <<chat_versions, chatRest, dbVars, storeVars, searchVars, applied, emb, upl>>

\* Variant of AnswerFixed that asks the model although nothing was retrieved
AnswerFixed_asks_model ==
    /\ ans.pc = "fixed"
    /\ ans' = [ans EXCEPT !.pc = "llm"]
    /\ UNCHANGED <<chatVars, dbVars, storeVars, searchVars, applied, emb, upl>>

\* chat.py:96-98 (response_text = RAG_NO_SOURCES_MESSAGE) and 175-182 (one
\* token frame per word, then the citations frame with [])
AnswerFixed ==
    /\ ans.pc = "fixed"
    /\ ans' = [ans EXCEPT
                  !.branch = "fixed",
                  !.answer = RAG_NO_SOURCES_MESSAGE,
                  !.reply = IF ans.kind = "stream"
                              THEN JoinTokens(Split(RAG_NO_SOURCES_MESSAGE))
                              ELSE RAG_NO_SOURCES_MESSAGE,
                  !.citations = <<>>,
                  !.pc = IF ans.kind = "stream" THEN "check" ELSE "store"]
    /\ UNCHANGED <<chatVars, dbVars, storeVars, searchVars, applied, emb, upl>>

\* chat.py:99-110 with model_chat.py:152-230 (every failure comes back as a
\* text), and chat.py:195-222 with model_chat.py:232-330 (a failed request
\* raises RuntimeError: error frame, done with an empty id, nothing stored)
AnswerLLM(ok) ==
    /\ ans.pc = "llm"
    /\ LET text == IF ~ans.configured THEN LLM_NOT_CONFIGURED
                   ELSE IF ok THEN LLM_ANSWER ELSE LLM_REQUEST_FAILED
           raised == ans.kind = "stream" /\ ans.configured /\ ~ok
       IN  ans' = [ans EXCEPT
                      !.branch = "llm",
                      !.llm_requests = IF ans.configured THEN @ + 1 ELSE @,
                      !.reply = IF raised THEN <<>> ELSE text,
                      !.citations = IF raised THEN "none"
                                    ELSE [i \in 1..Len(ans.relevant) |-> ans.relevant[i].chunk_id],
                      !.done = IF raised THEN "done_empty" ELSE @,
                      !.pc = IF raised THEN "closed"
                             ELSE IF ans.kind = "stream" THEN "check" ELSE "store"]
    /\ UNCHANGED <<chatVars, dbVars, storeVars, searchVars, applied, emb, upl>>

\* chat.py:183-185, 224-226
AnswerCheck ==
    /\ ans.pc = "check"
    /\ LET version == get_chat_version(chat_versions, ans.notebook_id)
       IN  ans' = IF version # ans.snapshot
                    THEN [ans EXCEPT !.checked = version, !.pc = "closed",
                                     !.done = "done_empty"]
                    ELSE [ans EXCEPT !.checked = version, !.pc = "store"]
    /\ UNCHANGED <<chatVars, dbVars, storeVars, searchVars, applied, emb, upl>>

\* chat.py:112-113, 186-191, 228-239: store.add_message(notebook_id,
\* "assistant", ...); the stream stores "".join(assembled).strip() or the answer
AnswerStore ==
    /\ ans.pc = "store"
    /\ messages' = add_message(messages, ans.notebook_id, "assistant", ans.kind)
    /\ ans' = [ans EXCEPT
                  !.stored = Append(@, IF ans.branch = "fixed" THEN ans.answer
                                         ELSE Strip(ans.reply)),
                  !.done = "done_id",
                  !.pc = "closed"]
    /\ UNCHANGED <<chat_versions, chatRest, dbVars, storeVars, searchVars, applied, emb, upl>>

\* the response has been delivered; the next request may start
AnswerForget ==
    /\ ans.pc = "closed"
    /\ ans' = NoAnswer
    /\ UNCHANGED <<chatVars, dbVars, storeVars, searchVars, applied, emb, upl>>

NextAnswer ==
    \/ \E kind \in {"post", "stream"}, n \in ChatNotebooks, mode \in ChatModes,
          raw \in RawChunkLists, configured \in BOOLEAN :
          AnswerOpen(kind, n, mode, raw, configured)
    \/ AnswerFixed
    \/ \E ok \in BOOLEAN : AnswerLLM(ok)
    \/ AnswerCheck
    \/ AnswerStore
    \/ AnswerForget
    \/ \E c \in Clearers, n \in ChatNotebooks : ClearEmpty(c, n)
    \/ \E c \in Clearers : ClearRead(c)
    \/ \E c \in Clearers : ClearWrite(c)

\* ======================================================================
\* The parser configuration of an indexing run (orchestrator.py)
\* ======================================================================
NoApply == [op |-> "none", input |-> <<>>, output |-> <<>>]
InitApplied == applied = NoApply

\* the keys of Source.individual_config (schemas/sources.py:27-40), by type
IntFields == {"chunk_size", "chunk_overlap", "context_window", "parent_chunk_size",
              "child_chunk_size"}
BoolFields == {"ocr_enabled", "use_llm_summary"}
StrFields == {"ocr_language", "chunking_method", "doc_type", "symbol_separator"}
OverrideFields == IntFields \cup BoolFields \cup StrFields

\* Python truth value of a value of field F's type
Falsy(F, v) ==
    IF F \in IntFields THEN v = 0 ELSE IF F \in StrFields THEN v = "" ELSE v = FALSE

\* a per-source value: None, or a value of the field's type
None(F) ==
    [null |-> TRUE,
     v |-> IF F \in IntFields THEN 0 ELSE IF F \in StrFields THEN "" ELSE FALSE]
Some(v) == [null |-> FALSE, v |-> v]

\* indiv.get(F) or global_cfg.F
OrElse(F, o, g) == IF o.null \/ Falsy(F, o.v) THEN g ELSE o.v

\* global_cfg.F if indiv.get(F) is None else indiv.get(F)
IfNone(o, g) == IF o.null THEN g ELSE o.v

\* orchestrator.py:240-253
parser_config(indiv, global_cfg) ==
    [F \in OverrideFields \cup {"min_chunk_size"} |->
        IF F = "min_chunk_size" THEN global_cfg[F]
        ELSE IF F \in BoolFields THEN IfNone(indiv[F], global_cfg[F])
        ELSE OrElse(F, indiv[F], global_cfg[F])]

\* ParsingSettings of the notebook (schemas/sources.py:44-62)
SettingsInputs ==
    {[F \in OverrideFields \cup {"min_chunk_size"} |->
         IF F = "chunk_overlap" THEN co
         ELSE IF F = "ocr_enabled" THEN ocr
         ELSE IF F \in IntFields \cup {"min_chunk_size"} THEN 512
         ELSE IF F \in BoolFields THEN FALSE
         ELSE "general"] : co \in {0, 64}, ocr \in BOOLEAN}

\* Source.individual_config as PATCH /sources/{id} stores it (routers/sources.py:165-178)
OverrideInputs ==
    {[F \in OverrideFields |->
         IF F = "chunk_size" THEN cs
         ELSE IF F = "chunk_overlap" THEN co
         ELSE IF F = "ocr_enabled" THEN ocr
         ELSE IF F = "ocr_language" THEN lang
         ELSE None(F)] :
       cs \in {None("chunk_size"), Some(256)},
       co \in {None("chunk_overlap"), Some(0), Some(32)},
       ocr \in {None("ocr_enabled"), Some(FALSE), Some(TRUE)},
       lang \in {None("ocr_language"), Some(""), Some("eng")}}

\* orchestrator.py:238-253: one indexing run builds its parser_config
BuildParserConfig(indiv, global_cfg) ==
    /\ applied.op = "none"
    /\ applied' = [op |-> "parser_config",
                   input |-> [indiv |-> indiv, global_cfg |-> global_cfg],
                   output |-> parser_config(indiv, global_cfg)]
    /\ UNCHANGED <<chatVars, dbVars, storeVars, searchVars, ans, emb, upl>>

NextConfig ==
    \E indiv \in OverrideInputs, global_cfg \in SettingsInputs :
        BuildParserConfig(indiv, global_cfg)

\* ======================================================================
\* EmbeddingClient (embedding_service.py)
\* ======================================================================
\* EmbeddingProviderConfig.model_name values: a tagged name, its base name,
\* and an unrelated name
ModelNames == {"m:tag", "m", "other"}
BaseName(name) == IF name = "m:tag" THEN "m" ELSE name
\* embedding_service.py:196-214 for provider ollama, no custom endpoint and a
\* base_url that does not end in /api
embedding_paths == <<"/api/embed", "/api/embeddings">>
FallbackDim == 3
\* the vector the provider computes for a text
ServerVector == <<1, 2>>
\* embedding_service.py:193-194
zero(dim) == [i \in 1..dim |-> 0]

\* the provider: reachable or not, the models it lists under /api/tags, the
\* embedding paths it serves
Servers == [up : BOOLEAN, models : SUBSET ModelNames,
            paths : {{"/api/embed", "/api/embeddings"}, {"/api/embeddings"}, {}}]

\* one POST: "error" when the connection fails, else the status code
Post(server, path, model) ==
    IF ~server.up THEN "error"
    ELSE IF path \in server.paths /\ model \in server.models THEN "200" ELSE "404"

\* embedding_service.py:220-252, the loop over attempt in range(3) from
\* attempt number `attempt` on: the POSTs sent, the endpoint left in
\* _active_embed_path and whether a response was parsed
RECURSIVE Attempts(_, _, _, _, _, _)
Attempts(server, model, path, use_retry, attempt, posts) ==
    LET first == Post(server, path, model)
        fallback == /\ first = "404"
                    /\ use_retry
                    /\ path = embedding_paths[1]
        path2 == IF fallback THEN embedding_paths[2] ELSE path
        status == IF fallback THEN Post(server, path2, model) ELSE first
        sent == posts \o <<[path |-> path, model |-> model]>> \o
                (IF fallback THEN <<[path |-> path2, model |-> model]>> ELSE <<>>)
    IN  IF status = "200" THEN [ok |-> TRUE, path |-> path2, posts |-> sent]
        ELSE IF attempt = 2 \/ ~use_retry THEN [ok |-> FALSE, path |-> path2, posts |-> sent]
        ELSE Attempts(server, model, path2, use_retry, attempt + 1, sent)

\* embedding_service.py:216-257 on the client c; enabled providers only
get_embeddings(c, server, ntexts, use_retry) ==
    LET run == Attempts(server, c.model_name, c.active_embed_path, use_retry, 0, <<>>)
    IN  [client |-> [c EXCEPT !.active_embed_path = run.path, !.available = run.ok],
         posts |-> run.posts,
         result |-> [i \in 1..ntexts |-> IF run.ok THEN ServerVector ELSE zero(c.embedding_dim)]]

NoClient == [model_name |-> "none", active_embed_path |-> "none", available |-> FALSE,
             embedding_dim |-> 0]
NoServer == [up |-> FALSE, models |-> {}, paths |-> {}]
NoEmbCall == [ntexts |-> 0, result |-> <<>>, posts |-> <<>>, failed_before |-> FALSE]
InitEmb ==
    emb = [client |-> NoClient, server |-> NoServer, calls |-> 0,
           failed_404 |-> FALSE, last |-> NoEmbCall]

\* embedding_service.py:151-176: EmbeddingClient(provider) against a provider
\* in state server: health_check (178-183), then the dimension probe
EmbeddingClientInit(model_name, server) ==
    /\ emb.client = NoClient
    /\ LET c0 == [model_name |-> model_name, active_embed_path |-> embedding_paths[1],
                  available |-> FALSE, embedding_dim |-> FallbackDim]
           probe == get_embeddings(c0, server, 1, FALSE)
           ok == probe.client.available
       IN  emb' = [emb EXCEPT
                      !.server = server,
                      !.client = IF ~server.up THEN c0
                                 ELSE [probe.client EXCEPT
                                          !.embedding_dim = IF ok THEN Len(probe.result[1]) ELSE @,
                                          !.available = ok]]
    /\ UNCHANGED <<chatVars, dbVars, storeVars, searchVars, ans, applied, upl>>

\* one call of get_embeddings(texts) with use_retry=True
GetEmbeddings(ntexts) ==
    /\ emb.client # NoClient
    /\ emb.calls < MaxCalls
    /\ LET r == get_embeddings(emb.client, emb.server, ntexts, TRUE)
       IN  emb' = [emb EXCEPT
                      !.client = r.client,
                      !.calls = @ + 1,
                      !.failed_404 = @ \/ (emb.server.up /\ ~r.client.available),
                      !.last = [ntexts |-> ntexts, result |-> r.result, posts |-> r.posts,
                                failed_before |-> emb.failed_404]]
    /\ UNCHANGED <<chatVars, dbVars, storeVars, searchVars, ans, applied, upl>>

NextEmb ==
    \/ \E model_name \in ModelNames, server \in Servers : EmbeddingClientInit(model_name, server)
    \/ \E ntexts \in 1..2 : GetEmbeddings(ntexts)

\* ======================================================================
\* Uploads into DOCS_DIR/<notebook> (routers/sources.py, orchestrator.py)
\* ======================================================================
Uploaders == {"u1", "u2"}
\* file names a client sends; the second is what the first becomes on a collision
Filenames == {"a.txt", "a_1.txt"}
\* f"{stem}_{counter}{suffix}" (orchestrator.py:121)
Numbered(filename, counter) ==
    IF counter = 0 THEN filename
    ELSE IF filename = "a.txt" THEN <<"a_1.txt", "a_2.txt", "a_3.txt", "a_4.txt", "a_5.txt">>[counter]
    ELSE <<"a_1_1.txt", "a_1_2.txt", "a_1_3.txt", "a_1_4.txt", "a_1_5.txt">>[counter]

\* Variant that always returns notebook_dir / filename
next_available_path_same_name(disk, filename) == Numbered(filename, 0)

\* orchestrator.py:113-123: the first of filename, stem_1.suffix, stem_2.suffix, ...
\* that does not exist
next_available_path(disk, filename) ==
    Numbered(filename, CHOOSE c \in 0..5 :
                          /\ Numbered(filename, c) \notin disk
                          /\ \A b \in 0..(c - 1) : Numbered(filename, b) \in disk)

NoUpload == [pc |-> "idle", filename |-> "none", route |-> "none", path |-> "none"]
InitUpl ==
    upl = [disk |-> {}, srcs |-> <<>>, req |-> [u \in Uploaders |-> NoUpload],
           begun |-> 0, overwritten |-> FALSE]

\* routers/sources.py:124-140: the request arrives; the handler awaits the
\* body (request.form(), file.read()) or the first chunks (request.stream())
UploadBegin(u, filename, route) ==
    /\ upl.req[u].pc = "idle"
    /\ upl.begun < MaxUploads
    /\ upl' = [upl EXCEPT !.req[u] = [pc |-> "body", filename |-> filename,
                                      route |-> route, path |-> "none"],
                          !.begun = @ + 1]
    /\ UNCHANGED <<chatVars, dbVars, storeVars, searchVars, ans, applied, emb>>

\* routers/sources.py:50-51: Upload too large
UploadTooLarge(u) ==
    /\ upl.req[u].pc = "body"
    /\ upl.req[u].route = "form"
    /\ upl' = [upl EXCEPT !.req[u] = NoUpload]
    /\ UNCHANGED <<chatVars, dbVars, storeVars, searchVars, ans, applied, emb>>

\* orchestrator.py:227-230 through routers/sources.py:137 and 52: the path is
\* chosen, the bytes are written and the Source is registered without an
\* await in between
UploadSave(u) ==
    /\ upl.req[u].pc = "body"
    /\ upl.req[u].route = "form"
    /\ LET target == next_available_path(upl.disk, upl.req[u].filename)
       IN  upl' = [upl EXCEPT
                      !.overwritten = @ \/ target \in upl.disk,
                      !.disk = @ \cup {target},
                      !.srcs = Append(@, [upload |-> upl.req[u].filename, file_path |-> target]),
                      !.req[u] = NoUpload]
    /\ UNCHANGED <<chatVars, dbVars, storeVars, searchVars, ans, applied, emb>>

\* routers/sources.py:87-95: the part headers are complete; the path is
\* chosen and the file is opened for writing in the same step
StreamOpenFile(u) ==
    /\ upl.req[u].pc = "body"
    /\ upl.req[u].route = "stream"
    /\ LET output_path == next_available_path(upl.disk, upl.req[u].filename)
       IN  upl' = [upl EXCEPT
                      !.overwritten = @ \/ output_path \in upl.disk,
                      !.disk = @ \cup {output_path},
                      !.req[u].path = output_path,
                      !.req[u].pc = "streaming"]
    /\ UNCHANGED <<chatVars, dbVars, storeVars, searchVars, ans, applied, emb>>

\* routers/sources.py:97-102 and 139-140: the closing boundary arrived; the
\* file is closed and add_source_from_path registers it
StreamFinish(u) ==
    /\ upl.req[u].pc = "streaming"
    /\ upl' = [upl EXCEPT
                  !.srcs = Append(@, [upload |-> upl.req[u].filename,
                                      file_path |-> upl.req[u].path]),
                  !.req[u] = NoUpload]
    /\ UNCHANGED <<chatVars, dbVars, storeVars, searchVars, ans, applied, emb>>

\* routers/sources.py:67-73, 78-80, 110-111: the upload is too large or the
\* payload ends early; _cleanup_partial_file unlinks the partial file
StreamAbort(u) ==
    /\ upl.req[u].pc = "streaming"
    /\ upl' = [upl EXCEPT !.disk = @ \ {upl.req[u].path}, !.req[u] = NoUpload]
    /\ UNCHANGED <<chatVars, dbVars, storeVars, searchVars, ans, applied, emb>>

NextUpload ==
    \/ \E u \in Uploaders, filename \in Filenames, route \in {"form", "stream"} :
          UploadBegin(u, filename, route)
    \/ \E u \in Uploaders : UploadTooLarge(u)
    \/ \E u \in Uploaders : UploadSave(u)
    \/ \E u \in Uploaders : StreamOpenFile(u)
    \/ \E u \in Uploaders : StreamFinish(u)
    \/ \E u \in Uploaders : StreamAbort(u)

\* ======================================================================
\* EmbeddingEngine.embed_chunks (embedding_service.py)
\* ======================================================================
\* the chunks of a parsing JSON: text, and embedding_text (None, or the child
\* text of pcr.py:47-49 / the enriched text of context_enrichment.py:24)
NoText == "None"
ParsedChunks == [text : {"p1", "p2"}, embedding_text : {NoText, "c1", "c2", "p1"}]
ParsedChunkLists == UNION {[1..n -> ParsedChunks] : n \in 0..2}

\* the vector the provider returns for a text, and the zero vector of a
\* failed request (embedding_service.py:248-257)
VectorOf(text) == [of |-> text]
FailedVector == [of |-> "nothing"]

\* embedding_service.py:361-414: texts = [item.get("text", "") ...], one vector
\* per text, embedding_failed for a zero vector
embed_chunks(chunks, ok) ==
    LET texts == [i \in 1..Len(chunks) |-> chunks[i].text]
        vectors == [i \in 1..Len(chunks) |-> IF ok THEN VectorOf(texts[i]) ELSE FailedVector]
    IN  [i \in 1..Len(chunks) |->
            [parsed_chunk |-> chunks[i], embedding |-> vectors[i],
             embedding_failed |-> vectors[i] = FailedVector]]

\* documents.py:70-101: the chunks row and the embedding stored for each item
stored_rows(embedded_chunks) ==
    [i \in 1..Len(embedded_chunks) |->
        [chunk_text |-> embedded_chunks[i].parsed_chunk.text,
         embedding_text |-> embedded_chunks[i].parsed_chunk.embedding_text,
         embedding |-> embedded_chunks[i].embedding]]

\* orchestrator.py:262-273: embed_document_from_parsing, then upsert_document
EmbedDocument(chunks, ok) ==
    /\ applied.op = "none"
    /\ applied' = [op |-> "embed_chunks",
                   input |-> [chunks |-> chunks, ok |-> ok],
                   output |-> stored_rows(embed_chunks(chunks, ok))]
    /\ UNCHANGED <<chatVars, dbVars, storeVars, searchVars, ans, emb, upl>>

NextEmbedChunks ==
    \E chunks \in ParsedChunkLists, ok \in BOOLEAN : EmbedDocument(chunks, ok)

\* ======================================================================
\* Reading order of the lines of a PDF page (parse/utils.py)
\* ======================================================================
\* a line is (y, x, text, font_size); text names the line
LineYs == {10, 20}
LineXs == {0, 80, 81}
PdfPages ==
    {[i \in 1..n |-> [y |-> ys[i], x |-> xs[i], text |-> i]] :
        n \in 0..MaxLines, ys \in [1..MaxLines -> LineYs],
        xs \in [1..MaxLines -> LineXs]}

\* sorted(lines, key=lambda item: (item[0], item[1])): stable, ascending
SortedByYX(lines) ==
    SortedDesc(lines, {p \in (1..Len(lines)) \X (1..Len(lines)) :
                          \/ lines[p[1]].y < lines[p[2]].y
                          \/ lines[p[1]].y = lines[p[2]].y /\ lines[p[1]].x < lines[p[2]].x})
\* list.sort(key=lambda item: item[0]) and sorted(lines, key=lambda item: item[1])
SortedByY(lines) ==
    SortedDesc(lines, {p \in (1..Len(lines)) \X (1..Len(lines)) :
                          lines[p[1]].y < lines[p[2]].y})
SortedByX(lines) ==
    SortedDesc(lines, {p \in (1..Len(lines)) \X (1..Len(lines)) :
                          lines[p[1]].x < lines[p[2]].x})

\* the column heuristic's threshold on the largest gap (parse/utils.py:44)
ColumnGap == 80

\* parse/utils.py:35-54
sort_pdf_lines_multicolumn(lines) ==
    IF Len(lines) < 3 THEN SortedByYX(lines)
    ELSE LET sorted_by_x == SortedByX(lines)
             xs == [i \in 1..Len(lines) |-> sorted_by_x[i].x]
             gaps == [i \in 1..(Len(xs) - 1) |-> xs[i + 1] - xs[i]]
             split_gap == Max({gaps[i] : i \in 1..Len(gaps)})
         IN  IF split_gap < ColumnGap THEN SortedByYX(lines)
             ELSE LET first == CHOOSE i \in 1..Len(gaps) :
                                  /\ gaps[i] = split_gap
                                  /\ \A j \in 1..(i - 1) : gaps[j] # split_gap
                      \* split_x = (xs[split_idx - 1] + xs[split_idx]) / 2, doubled
                      split_x2 == xs[first] + xs[first + 1]
                      left == SelectSeq(lines, LAMBDA l : 2 * l.x <= split_x2)
                      right == SelectSeq(lines, LAMBDA l : 2 * l.x > split_x2)
                  IN  SortedByY(left) \o SortedByY(right)

\* one page's lines are put in reading order
SortPdfLines(lines) ==
    /\ applied.op = "none"
    /\ applied' = [op |-> "sort_pdf_lines", input |-> lines,
                   output |-> sort_pdf_lines_multicolumn(lines)]
    /\ UNCHANGED <<chatVars, dbVars, storeVars, searchVars, ans, emb, upl>>

NextPdfLines == \E lines \in PdfPages : SortPdfLines(lines)

\* ======================================================================
\* General text slicing (parse/chunkers/general.py)
\* ======================================================================
\* the words of a block; under tiktoken "a" encodes to one token and "bb" to two
Words == {"a", "bb"}
WordLists == UNION {[1..n -> Words] : n \in 0..MaxWords}

\* " ".join(tokens).strip() and text.split() (parse/utils.py:17-19)
RECURSIVE JoinWords(_)
JoinWords(words) ==
    IF words = <<>> THEN <<>>
    ELSE IF Len(words) = 1 THEN words
    ELSE <<Head(words), " ">> \o JoinWords(Tail(words))
tokenize(text) == SelectSeq(text, LAMBDA x : x # " ")

RECURSIVE BpeLength(_)
BpeLength(words) ==
    IF words = <<>> THEN 0
    ELSE (IF Head(words) = "bb" THEN 2 ELSE 1) + BpeLength(Tail(words))

\* parse/utils.py:22-32: the tiktoken count when the package and its
\* encoding are available, else max(1, int(len(words) * 1.3))
token_count(text, with_tiktoken) ==
    IF tokenize(text) = <<>> THEN 0
    ELSE IF with_tiktoken THEN BpeLength(tokenize(text))
    ELSE Max({1, (Len(tokenize(text)) * 13) \div 10})

\* tokens[a : b] of Python, 0-based and clipped
Slice(tokens, a, b) == SubSeq(tokens, a + 1, IF b < Len(tokens) THEN b ELSE Len(tokens))

\* parse/chunkers/general.py:66-76: the window emitted at offset
Window(tokens, offset, step, min_chunk_size, with_tiktoken) ==
    LET part_text == JoinWords(Slice(tokens, offset, offset + step))
    IN  IF /\ token_count(part_text, with_tiktoken) < min_chunk_size
           /\ offset + step < Len(tokens)
          THEN JoinWords(Slice(tokens, offset, offset + step * 2))
          ELSE part_text

\* parse/chunkers/general.py:56-92: the texts of the chunks of one block
chunk_text_block(tokens, chunk_size, min_chunk_size, with_tiktoken) ==
    LET step == Max({1, chunk_size})
        count == (Len(tokens) + step - 1) \div step
    IN  [k \in 1..count |-> Window(tokens, (k - 1) * step, step, min_chunk_size, with_tiktoken)]

\* one text block is sliced
ChunkTextBlock(tokens, chunk_size, min_chunk_size, with_tiktoken) ==
    /\ applied.op = "none"
    /\ applied' = [op |-> "chunk_text_block",
                   input |-> [tokens |-> tokens, chunk_size |-> chunk_size,
                              min_chunk_size |-> min_chunk_size,
                              with_tiktoken |-> with_tiktoken],
                   output |-> chunk_text_block(tokens, chunk_size, min_chunk_size, with_tiktoken)]
    /\ UNCHANGED <<chatVars, dbVars, storeVars, searchVars, ans, emb, upl>>

NextSlice ==
    \E tokens \in WordLists, chunk_size \in 1..3, min_chunk_size \in 0..3,
       with_tiktoken \in BOOLEAN :
        ChunkTextBlock(tokens, chunk_size, min_chunk_size, with_tiktoken)

\* ------------------------------------------------ specifications
Init == InitChat /\ InitDb /\ InitStore /\ InitSearch /\ InitAnswer /\ InitApplied /\ InitEmb /\ InitUpl

SpecChat == Init /\ [][NextChat]_vars

SpecDb == Init /\ [][NextDb]_vars

SpecStore == Init /\ [][NextStore]_vars

SpecSearch == Init /\ [][NextSearch]_vars

SpecFuse == Init /\ [][NextFuse]_vars

SpecAnswer == Init /\ [][NextAnswer]_vars

SpecConfig == Init /\ [][NextConfig]_vars

SpecEmb == Init /\ [][NextEmb]_vars

SpecUpload == Init /\ [][NextUpload]_vars

SpecEmbedChunks == Init /\ [][NextEmbedChunks]_vars

SpecPdfLines == Init /\ [][NextPdfLines]_vars

SpecSlice == Init /\ [][NextSlice]_vars

\* a started thread is scheduled until _index_source_sync returns: each of
\* its calls returns or raises
SpecStoreLive == SpecStore /\ \A w \in Workers : WF_vars(WorkerStep(w))

\* ------------------------------------------------ claims on sources and notebooks
\* rows of the notebook database of source s, by table
ChunkRows(s) ==
    LET nb == sources[s].notebook_id
    IN  IF nb \in DOMAIN db THEN {c \in db[nb].chunks : c.doc_id = s} ELSE {}

\* some row of some notebook database was written for document d
RowsLeft(d) ==
    \E n \in DOMAIN db :
        \/ \E x \in db[n].documents : x.doc_id = d
        \/ \E x \in db[n].chunks : x.doc_id = d
        \/ \E x \in db[n].chunks_fts : x.doc_id = d
        \/ \E x \in db[n].chunk_embeddings : x.doc_id = d
        \/ \E x \in db[n].document_tags : x.doc_id = d

C5_AvailableMeansStoredVector ==
    \A s \in DOMAIN sources :
        sources[s].embeddings_status = "available" =>
            \E c \in ChunkRows(s) :
                \E e \in db[sources[s].notebook_id].chunk_embeddings :
                    e.chunk_rowid = c.rowid /\ e.nonzero

C9_EraseLeavesNoIndexData ==
    reported.op = "erase_source_data" =>
        LET s == reported.id
        IN  /\ s \in DOMAIN sources
            /\ sources[s].status = "new"
            /\ ~sources[s].has_parsing
            /\ ~sources[s].has_base
            /\ s \notin DOMAIN pjson
            /\ ~RowsLeft(s)
            /\ \A b \in blocks : b.source_id # s

\* something owned by notebook n is still there
Remains(n) ==
    \/ n \in notebooks \cup g_notebooks
    \/ n \in DOMAIN parsing_settings \cup DOMAIN g_settings
    \/ n \in DOMAIN messages \cup DOMAIN chat_versions
    \/ \E s \in DOMAIN sources : sources[s].notebook_id = n
    \/ \E s \in DOMAIN g_sources : g_sources[s].notebook_id = n
    \/ \E s \in DOMAIN docfiles : docfiles[s] = n
    \/ \E s \in DOMAIN pjson : pjson[s].notebook_id = n
    \/ n \in DOMAIN db
    \/ \E c \in citations : c.notebook_id = n

\* C10: when delete_notebook(N) has returned True nothing owned by N is
\* left, and a delete_notebook call never ends with N still listed but its
\* sources already dropped from memory.
C10_DeleteNotebookLeavesNothing ==
    /\ reported.op = "delete_notebook" => ~Remains(reported.id)
    /\ reported.op = "delete_notebook_failed" =>
           \A s \in DOMAIN g_sources :
               g_sources[s].notebook_id = reported.id => s \in DOMAIN sources

\* sort_order of the sources of notebook n in table tab is exactly 1..count
Dense(tab, n) ==
    {tab[s].sort_order : s \in SourcesOf(tab, n)} = 1..Cardinality(SourcesOf(tab, n))

\* C11: when a full deletion of a source of notebook N returns, the
\* sort_order values of N's remaining sources are exactly 1..|sources(N)|,
\* the GlobalStore holds the same sources of N with the same values, and the
\* remaining sources keep their relative order.
C11_DeletionLeavesDenseSortOrder ==
    [][ \A s \in DOMAIN sources :
          (reported'.op = "delete_source_fully" /\ reported'.id = s) =>
              LET n == sources[s].notebook_id
              IN  /\ Dense(sources', n)
                  /\ SourcesOf(g_sources', n) = SourcesOf(sources', n)
                  /\ \A t \in SourcesOf(sources', n) :
                        g_sources'[t].sort_order = sources'[t].sort_order
                  /\ \A t, u \in SourcesOf(sources', n) :
                        Before(sources, t, u) => Before(sources', t, u)
      ]_vars

\* C12: when seed_data has returned, no restored Source has status
\* "indexing", no restored Source has has_docs set while its file is
\* missing, every source row of a restored notebook is restored, and the
\* GlobalStore row of every restored Source equals the corrected object.
C12_RestoreCorrectsStaleSources ==
    reported.op = "seed_data" =>
        /\ \A s \in DOMAIN sources :
              /\ sources[s].status # "indexing"
              /\ sources[s].has_docs => s \in DOMAIN docfiles
              /\ s \in DOMAIN g_sources /\ g_sources[s] = sources[s]
        /\ \A s \in DOMAIN g_sources :
              g_sources[s].notebook_id \in notebooks => s \in DOMAIN sources

\* C12 witness: a restore has returned that had to change both has_docs and
\* status of one row, and a restored source is failed with has_docs cleared
\* and no file on disk.
C12_Witness ==
    /\ reported.op = "seed_data"
    /\ reported.id = "changed"
    /\ \E s \in DOMAIN sources :
          /\ sources[s].status = "failed"
          /\ ~sources[s].has_docs
          /\ s \notin DOMAIN docfiles

\* the two outcomes of a run, as written by the step that ends it
RunOutcomes ==
    [][ \A w \in Workers :
          (workers[w].pc \notin {"idle", "start"} /\ workers'[w].pc = "idle"
             /\ reported'.op # "seed_data") =>
              LET s == workers[w].sid
                  vector_ready == \E i \in 1..Len(workers[w].vec) : workers[w].vec[i]
              IN  /\ s \in DOMAIN g_sources'
                  /\ s \in DOMAIN sources' => sources'[s] = g_sources'[s]
                  /\ \/ /\ workers[w].pc = "finish"
                        /\ g_sources'[s].status = "indexed"
                        /\ g_sources'[s].has_parsing
                        /\ g_sources'[s].has_base
                        /\ g_sources'[s].embeddings_status =
                               IF vector_ready THEN "available" ELSE "unavailable"
                        /\ ~vector_ready => g_sources'[s].index_warning # "none"
                     \/ /\ workers[w].pc # "finish"
                        /\ g_sources'[s].status = "failed"
                        /\ ~g_sources'[s].has_base
      ]_vars

C14_OneWorkerPerSource ==
    [][ /\ \A s \in SourceIds : Cardinality({w \in Workers : workers'[w].sid = s
                                               /\ workers'[w].pc # "idle"}) <= 1
        /\ \A s \in DOMAIN sources' :
              LET started == \E w \in Workers : /\ workers[w].pc = "idle"
                                                /\ workers'[w].pc = "start"
                                                /\ workers'[w].sid = s
                  moved == /\ sources'[s].status = "indexing"
                           /\ s \in DOMAIN sources => sources[s].status # "indexing"
              IN  /\ started => sources'[s].status = "indexing"
                  /\ (moved /\ requests' # requests /\ nb_used' = nb_used) => started
      ]_vars

\* rows of document d that a query reaches: chunks JOIN documents
\* (search.py:47-49, 68-69, 82-83, 106-108) with the FTS and embedding rows
\* of those chunks
Searchable(img, d) ==
    LET cs == {c \in img.chunks : c.doc_id = d /\ \E x \in img.documents : x.doc_id = d}
    IN  [chunks |-> cs,
         fts |-> {f \in img.chunks_fts : \E c \in cs : c.rowid = f.rowid},
         vectors |-> {e \in img.chunk_embeddings : \E c \in cs : c.rowid = e.chunk_rowid}]

\* the rows of document d in the four tables upsert_document rewrites
DocRows(img, d) ==
    [documents |-> {x \in img.documents : x.doc_id = d},
     chunks |-> {c \in img.chunks : c.doc_id = d},
     fts |-> {f \in img.chunks_fts : f.doc_id = d},
     vectors |-> {e \in img.chunk_embeddings : e.doc_id = d}]

HasDisabledTag(d) ==
    \E dt \in ndb.document_tags : dt.doc_id = d /\ dt.tag \in DOMAIN ndb.tags /\ ~ndb.tags[dt.tag]

\* all rows the last search produced: both candidate lists and the result
ReturnedDocs ==
    {found.vector_rows[i].doc_id : i \in 1..Len(found.vector_rows)}
    \cup {found.fts_rows[i].doc_id : i \in 1..Len(found.fts_rows)}
    \cup {found.result[i].doc_id : i \in 1..Len(found.result)}

\* C16: no row of the vector list, of the FTS list (match, LIKE fallback or
\* newest-rows fallback) or of the merged result belongs to a document with
\* is_enabled=0 or to a document carrying a tag with is_enabled=0, and with a
\* non-empty selected_source_ids every row belongs to a selected document.
C16_OnlyVisibleChunksReturned ==
    \A d \in ReturnedDocs :
        /\ d \in DOMAIN ndb.documents
        /\ ndb.documents[d].is_enabled
        /\ ~HasDisabledTag(d)
        /\ call.selected # {} => d \in call.selected

\* the newest-rows fallback and the vector path both returned rows while an
\* enabled document with a switched-off tag has a chunk
C16_Witness ==
    /\ found.stage = "newest"
    /\ found.vector_rows # <<>>
    /\ found.result # <<>>
    /\ \E c \in ndb.chunks :
          /\ c.doc_id \in DOMAIN ndb.documents
          /\ ndb.documents[c.doc_id].is_enabled
          /\ HasDisabledTag(c.doc_id)

\* chunks a query with this selection may return: enabled document among
\* the selected ones, no switched-off tag
VisibleChunks(selected) ==
    {c \in ndb.chunks : /\ c.doc_id \in DOMAIN ndb.documents
                        /\ ndb.documents[c.doc_id].is_enabled
                        /\ ~HasDisabledTag(c.doc_id)
                        /\ selected # {} => c.doc_id \in selected}

\* C17: for every query, the empty or whitespace-only one included, a
\* retrieval returns at least one chunk whenever at least one visible chunk
\* exists; the FTS list comes from the LIKE fallback only when no row
\* matched, and from the newest-rows listing only when LIKE found none.
C17_VisibleChunkIsReturned ==
    call.mode \in ChatModes =>
        /\ VisibleChunks(call.selected) # {} => found.result # <<>>
        /\ found.stage \in {"like", "newest"} =>
              ~\E c \in VisibleChunks(call.selected) :
                  \A i \in 1..Len(call.message) : call.message[i] = c.chunk_text
        /\ found.stage = "newest" =>
              ~\E c \in VisibleChunks(call.selected) :
                  \E i \in 1..Len(call.message) : Like(call.message[i], c.chunk_text)

\* C18: vector ranking [A,B,C], FTS ranking [C,A,D], k=60, top_n=3, each
\* candidate scored by the sum of 1/(k+rank) over both lists: the merged
\* result is C, A, B in that order (as the specification states it).
C18_ScenarioGivesCAB ==
    (fused.vector = <<"A", "B", "C">> /\ fused.fts = <<"C", "A", "D">> /\ fused.top_n = 3)
        => fused.merged = <<"C", "A", "B">>

\* C18, amended: in that scenario A scores 1/61+1/62, C scores 1/63+1/61, B
\* scores 1/62 and D scores 1/63, so the merged result is A, C, B and D is
\* excluded.
C18_ScenarioGivesACB ==
    (fused.vector = <<"A", "B", "C">> /\ fused.fts = <<"C", "A", "D">> /\ fused.top_n = 3)
        => /\ fused.merged = <<"A", "C", "B">>
           /\ LET values == Fusion(RowsOf(fused.vector), RowsOf(fused.fts))
                  Score(x) == (CHOOSE i \in 1..Len(values) : values[i].row.chunk_id = x)
              IN  /\ RatEq(values[Score("A")].rrf, RatAdd(Rat(1, 61), Rat(1, 62)))
                  /\ RatEq(values[Score("C")].rrf, RatAdd(Rat(1, 63), Rat(1, 61)))
                  /\ RatEq(values[Score("B")].rrf, Rat(1, 62))
                  /\ RatEq(values[Score("D")].rrf, Rat(1, 63))

\* the scenario has been merged
C18_Witness ==
    /\ fused.vector = <<"A", "B", "C">> /\ fused.fts = <<"C", "A", "D">> /\ fused.top_n = 3
    /\ Len(fused.merged) = 3

\* the chunk ids of a result, in order
ChunkIds(result) == [i \in 1..Len(result) |-> result[i].section_id]

\* position at which _rrf_merge first saw a chunk: the vector list first,
\* then the FTS list
FirstSeen(f, id) ==
    IF \E i \in 1..Len(f.vector_rows) : f.vector_rows[i].chunk_id = id
      THEN CHOOSE i \in 1..Len(f.vector_rows) : f.vector_rows[i].chunk_id = id
      ELSE Len(f.vector_rows)
           + (CHOOSE i \in 1..Len(f.fts_rows) : f.fts_rows[i].chunk_id = id)

\* C19: a retrieval repeated with the same query, selected_source_ids and
\* mode on unchanged tables returns the same chunks in the same order as the
\* one before it, and every result is ordered by descending fused score,
\* chunks of equal score in the order in which they were first seen (vector
\* list first, then FTS list).
C19_RepeatedSearchSameResult ==
    [][ (call' = call /\ call.mode \in ChatModes /\ ndb' = ndb)
          => /\ ChunkIds(found'.result) = ChunkIds(found.result)
             /\ \A i, j \in 1..Len(found'.result) :
                   i < j =>
                      /\ ~RatGt(found'.result[j].score, found'.result[i].score)
                      /\ RatEq(found'.result[i].score, found'.result[j].score)
                            => FirstSeen(found', found'.result[i].section_id)
                               < FirstSeen(found', found'.result[j].section_id)
      ]_vars

\* score of result row i divided by the largest score of the result, as a
\* fraction; 1 when no score is positive
Normalised(result, i) ==
    LET top == CHOOSE m \in 1..Len(result) :
                   \A j \in 1..Len(result) : ~RatGt(result[j].score, result[m].score)
    IN  IF result[top].score.num = 0 THEN Rat(1, 1)
        ELSE Rat(result[i].score.num * result[top].score.den,
                 result[i].score.den * result[top].score.num)

\* C20: the chunks cited and placed in the prompt are exactly the chunks of
\* the search result whose score divided by the largest score of the result
\* (or 1.0 when every score is zero) is at least 0.75 in rag mode and at
\* least 0.50 in model mode; the largest normalised score is 1.0; agent mode
\* cites nothing and applies no threshold.
C20_CitedChunksMeetThreshold ==
    /\ call.mode = "agent" => cited = <<>>
    /\ call.mode \in ChatModes =>
          LET threshold == IF call.mode = "rag" THEN 75 ELSE 50
              Passes(i) == 100 * Normalised(found.result, i).num
                           >= threshold * Normalised(found.result, i).den
              kept == SelectSeq([i \in 1..Len(found.result) |-> i], Passes)
          IN  /\ Len(cited) = Len(kept)
              /\ \A p \in 1..Len(cited) :
                    /\ cited[p].section_id = found.result[kept[p]].section_id
                    /\ RatEq(cited[p].score, Normalised(found.result, kept[p]))
                    /\ 100 * cited[p].score.num >= threshold * cited[p].score.den
              /\ found.result # <<>> =>
                    \E i \in 1..Len(found.result) :
                        RatEq(Normalised(found.result, i), Rat(1, 1))

\* a rag request whose search returned two chunks, one of them below 0.75
\* of the best and left out
C20_Witness ==
    /\ call.mode = "rag"
    /\ Len(found.result) = 2
    /\ Len(cited) = 1
    /\ \E i \in 1..2 : 100 * Normalised(found.result, i).num
                       < 75 * Normalised(found.result, i).den


\* the source was created and has since been deleted: its uuid was drawn, and
\* neither the in-memory list nor GlobalStore holds it
Deleted(s) ==
    /\ \E i \in 1..src_used : SourceIdSeq[i] = s
    /\ s \notin DOMAIN sources
    /\ s \notin DOMAIN g_sources

DocOrChunkRows(s) ==
    \E n \in DOMAIN db :
        \/ \E x \in db[n].documents : x.doc_id = s
        \/ \E x \in db[n].chunks : x.doc_id = s

\* C30: a source deleted while its indexing worker is still running is not
\* re-created by the worker: once the source is gone from GlobalStore and from
\* the in-memory list with no document or chunk rows in NotebookStore, every
\* later step leaves it so.
C30_DeletedSourceStaysDeleted ==
    [][\A s \in SourceIds :
          (Deleted(s) /\ ~DocOrChunkRows(s)) => (Deleted(s) /\ ~DocOrChunkRows(s))']_vars


\* ------------------------------------------------ claims on the answer
\* the request is in rag mode and no retrieved chunk passed the threshold
NoSources == ans.mode = "rag" /\ ans.relevant = <<>>

\* C21 as stated: a rag request for which no retrieved chunk passes the
\* threshold ends with the fixed no-sources message as its reply, exactly one
\* stored assistant message with that text, empty citations and no request
\* to the upstream LLM.
C21_NoSourcesAlwaysStored ==
    (ans.pc = "closed" /\ NoSources) =>
        /\ Strip(ans.reply) = RAG_NO_SOURCES_MESSAGE
        /\ ans.stored = <<RAG_NO_SOURCES_MESSAGE>>
        /\ ans.citations = <<>>
        /\ ans.llm_requests = 0

\* C21: a rag request for which no retrieved chunk passes the threshold
\* ends with the fixed no-sources message as its reply (over the stream: its
\* words, each followed by a space), empty citations and no request to the
\* upstream LLM; exactly one assistant message with that text is stored,
\* except by a stream that finds its notebook's chat_version different from
\* its snapshot when it checks before storing: it stores nothing and closes
\* with an empty message id.
C21_NoSourcesFixedReply ==
    (ans.pc = "closed" /\ NoSources) =>
        /\ Strip(ans.reply) = RAG_NO_SOURCES_MESSAGE
        /\ ans.kind = "stream" => ans.reply = JoinTokens(Split(RAG_NO_SOURCES_MESSAGE))
        /\ ans.citations = <<>>
        /\ ans.llm_requests = 0
        /\ \/ ans.stored = <<RAG_NO_SOURCES_MESSAGE>> /\ ans.done = "done_id"
           \/ /\ ans.kind = "stream"
              /\ ans.stored = <<>>
              /\ ans.done = "done_empty"
              /\ ans.checked # ans.snapshot

C21_Witness ==
    /\ ans.pc = "closed"
    /\ NoSources
    /\ ans.kind = "stream"
    /\ ans.stored = <<RAG_NO_SOURCES_MESSAGE>>


\* ------------------------------------------------ claims on the parser configuration
\* C22: for every field F of the per-source override, the configuration
\* used to index the source has effective.F = override.F when override.F is
\* not null, for every value of the field's type, and effective.F = the
\* notebook's setting for F when override.F is null.
C22_OverrideWinsUnlessNull ==
    applied.op = "parser_config" =>
        \A F \in OverrideFields :
            applied.output[F] =
                IF applied.input.indiv[F].null THEN applied.input.global_cfg[F]
                ELSE applied.input.indiv[F].v


\* ------------------------------------------------ claims on the embedding client
\* C23: when the configured model is a tagged name that the server does not
\* list while it lists the untagged base name, get_embeddings falls back to
\* the base name: it returns the server's non-zero vectors for the texts,
\* and this and every later call ends with a request for the base name.
C23_TaggedNameFallsBackToBase ==
    LET name == emb.client.model_name
    IN  (/\ emb.calls >= 1
         /\ name # BaseName(name)
         /\ emb.server.up
         /\ "/api/embed" \in emb.server.paths
         /\ name \notin emb.server.models
         /\ BaseName(name) \in emb.server.models) =>
            /\ \A i \in 1..emb.last.ntexts : emb.last.result[i] = ServerVector
            /\ emb.last.posts # <<>>
            /\ emb.last.posts[Len(emb.last.posts)].model = BaseName(name)

\* C24: once a get_embeddings call has failed with 404 from the server (the
\* model is absent), every later call returns one zero vector of the
\* current dimension per text and sends no embedding POST request.
C24_ModelAbsentStopsRequests ==
    (emb.calls >= 1 /\ emb.last.failed_before) =>
        /\ emb.last.posts = <<>>
        /\ emb.last.result = [i \in 1..emb.last.ntexts |-> zero(emb.client.embedding_dim)]


\* ------------------------------------------------ claims on uploads
\* the Sources that uploads of filename added
UploadsOf(filename) == {i \in 1..Len(upl.srcs) : upl.srcs[i].upload = filename}

\* C25: no upload writes to a path that already exists, also when upload
\* requests are handled concurrently: after k completed uploads of one
\* filename there are k Sources for it, with k distinct files that exist.
C25_UploadsNeverOverwrite ==
    /\ ~upl.overwritten
    /\ \A i, j \in 1..Len(upl.srcs) : i # j => upl.srcs[i].file_path # upl.srcs[j].file_path
    /\ \A i \in 1..Len(upl.srcs) : upl.srcs[i].file_path \in upl.disk
    /\ \A filename \in Filenames :
          Cardinality({upl.srcs[i].file_path : i \in UploadsOf(filename)})
              = Cardinality(UploadsOf(filename))

\* three uploads of a.txt completed, one of them while another upload of
\* the same name was streaming
C25_Witness ==
    /\ Cardinality(UploadsOf("a.txt")) = 3
    /\ {upl.srcs[i].file_path : i \in UploadsOf("a.txt")} = {"a.txt", "a_1.txt", "a_2.txt"}
    /\ \E u \in Uploaders : upl.req[u].pc = "streaming" /\ upl.req[u].filename = "a.txt"


\* ------------------------------------------------ claims on embed_chunks
\* C26: the vector stored for a chunk that carries an embedding_text is
\* computed from embedding_text, and from text for a chunk without one; the
\* text stored for retrieval and the prompt is the chunk's text.
C26_VectorFromEmbeddingText ==
    (applied.op = "embed_chunks" /\ applied.input.ok) =>
        \A i \in 1..Len(applied.input.chunks) :
            LET chunk == applied.input.chunks[i]
            IN  /\ applied.output[i].chunk_text = chunk.text
                /\ applied.output[i].embedding =
                       VectorOf(IF chunk.embedding_text # NoText THEN chunk.embedding_text
                                ELSE chunk.text)


\* ------------------------------------------------ claims on the PDF line order
\* the largest gap between consecutive sorted x-origins of the lines
LargestGap(lines) ==
    LET xs == SortedByX(lines)
    IN  IF Len(lines) < 2 THEN 0
        ELSE Max({xs[i + 1].x - xs[i].x : i \in 1..(Len(lines) - 1)})

\* the lines on one side of the midpoint of the (first) largest gap, top to bottom
ColumnOrder(lines) ==
    LET xs == SortedByX(lines)
        i == CHOOSE i \in 1..(Len(lines) - 1) :
                /\ xs[i + 1].x - xs[i].x = LargestGap(lines)
                /\ \A j \in 1..(i - 1) : xs[j + 1].x - xs[j].x # LargestGap(lines)
        mid2 == xs[i].x + xs[i + 1].x
    IN  SortedByY(SelectSeq(lines, LAMBDA l : 2 * l.x <= mid2)) \o
        SortedByY(SelectSeq(lines, LAMBDA l : 2 * l.x > mid2))

\* C28: the two-column order (left of the midpoint of the largest gap top to
\* bottom, then right of it top to bottom) is applied only when the largest
\* gap between consecutive sorted x-origins strictly exceeds 80; for a
\* largest gap of 80 or less the lines come out sorted by (y, x).
C28_ColumnsOnlyAboveGap80 ==
    applied.op = "sort_pdf_lines" =>
        applied.output = IF LargestGap(applied.input) > 80 THEN ColumnOrder(applied.input)
                         ELSE SortedByYX(applied.input)


\* ------------------------------------------------ claims on general text slicing
\* the words of the chunks, in chunk order
RECURSIVE Flatten(_)
Flatten(texts) ==
    IF texts = <<>> THEN <<>> ELSE tokenize(Head(texts)) \o Flatten(Tail(texts))

\* C27: when a block is sliced into more than one window of chunk_size
\* tokens and the final window has fewer than min_chunk_size tokens, the
\* tail is merged with its predecessor: no chunk of its own is emitted for
\* it, so the last chunk has at least min_chunk_size tokens.
C27_ShortTailIsMerged ==
    (applied.op = "chunk_text_block" /\ Len(applied.input.tokens) > applied.input.chunk_size) =>
        LET last == applied.output[Len(applied.output)]
        IN  token_count(last, applied.input.with_tiktoken) >= applied.input.min_chunk_size

\* C29: the chunks of general text slicing partition the block's whitespace
\* tokens: the tokens of the chunks in chunk order are exactly the block's
\* token sequence, none dropped and none in two chunks.
C29_ChunksPartitionTokens ==
    applied.op = "chunk_text_block" => Flatten(applied.output) = applied.input.tokens

====
